---- MODULE Spec2Model ----
(***************************************************************************)
(* Model of the segmentation-to-timed-deck pipeline of                     *)
(* slide_video_generator:                                                  *)
(*   - textSegmentation.ts  assignTimestamps        (SpecTimer)            *)
(*   - slideGenerator.ts    generateSlides, the Builder mapping, the mock  *)
(*                          deck                    (Spec)                 *)
(*   - pptxGenerator.ts     createPptx and the ten layout renderers        *)
(*                                                  (Spec)                 *)
(*   - the server's handlers for one project        (SpecPoll, SpecServer) *)
(*   - voicevoxService.ts   synthesizeMultiple      (SpecVoice)            *)
(*   - textCorrection.ts    correctText             (SpecCorrect)          *)
(*   - textSegmentation.ts  segmentText, simpleSplit (SpecSegment)         *)
(* JavaScript values are tagged records, so that `||`, property reads and  *)
(* TypeErrors are computed as the engine computes them.  Japanese string   *)
(* literals of the source are written in romaji.  Lengths on the canvas    *)
(* are in thousandths of an inch (0.5 is 500); slide times are in tenths   *)
(* of a second (Scale), so that fractional seconds exist in the model.     *)
(***************************************************************************)
EXTENDS Integers, Sequences, FiniteSets, TLC

VARIABLES
    mode,       \* the environment variables the process was started with
    response,   \* what the generative collaborator answered
    slides,     \* the deck generateSlides resolved with
    pptx,       \* the presentation createPptx assembled
    pc,         \* position of the generate-slides request
    texts,      \* input of assignTimestamps
    segments,   \* output of assignTimestamps
    tpc,        \* position of the timer run
    project,    \* the entry of the one project in the server's `projects`
    transcription,  \* the upload's transcribeAudio promise
    poll,       \* the transcription-result request
    gen,        \* the generate-slides requests, by request
    cor,        \* the correct request
    calls,      \* the calls to external collaborators that are in flight
    file,       \* presentation_<projectId>.pptx in the output directory
    voice,      \* one call of synthesizeMultiple
    correction, \* one call of correctText
    segmentation    \* one call of segmentText

coreVars == <<mode, response, slides, pptx, pc>>
timerVars == <<texts, segments, tpc>>
serverVars == <<project, transcription, poll, gen, cor, calls, file>>
voiceVars == <<voice>>
serviceVars == <<correction, segmentation>>
vars == <<mode, response, slides, pptx, pc, texts, segments, tpc,
          project, transcription, poll, gen, cor, calls, file, voice,
          correction, segmentation>>

(***************************************************************************)
(* Bounds of the model.                                                    *)
(***************************************************************************)
MaxSlides == 3      \* longest deck built from the mixed pool
MaxNodes == 2       \* most nodes of a network-diagram payload
MaxEdges == 2       \* most edges of a network-diagram payload
MaxTexts == 3       \* longest text list given to assignTimestamps
MaxGenRequests == 2 \* most generate-slides requests a client sends
MaxItems == 2       \* longest list given to synthesizeMultiple

(***************************************************************************)
(* JavaScript values.                                                      *)
(***************************************************************************)
Undef == [t |-> "undefined"]
Null == [t |-> "null"]
NaN == [t |-> "number", nan |-> TRUE]
Num(n) == [t |-> "number", n |-> n]
Str(s) == [t |-> "string", s |-> s]
Chars(c) == [t |-> "string", chars |-> c]
Arr(a) == [t |-> "array", a |-> a]
Obj(o) == [t |-> "object", o |-> o]
Fn(name) == [t |-> "function", name |-> name]

IsNum(v) == v.t = "number" /\ "n" \in DOMAIN v
IsArr(v) == v.t = "array"
IsNullish(v) == v.t \in {"undefined", "null"}

\* ToBoolean: undefined, null, 0, NaN and "" are falsy.
Truthy(v) ==
    CASE v.t \in {"undefined", "null"} -> FALSE
      [] v.t = "number" -> IsNum(v) /\ v.n # 0
      [] v.t = "string" -> IF "s" \in DOMAIN v THEN v.s # ""
                           ELSE IF "chars" \in DOMAIN v THEN v.chars # <<>>
                           ELSE TRUE
      [] OTHER -> TRUE

\* a || b
Or(a, b) == IF Truthy(a) THEN a ELSE b

\* v.k : reading a property of null or undefined is a TypeError (GetThrows);
\* a property an object does not have reads as undefined.
GetThrows(v) == IsNullish(v)
Get(v, k) ==
    IF v.t = "object" /\ k \in DOMAIN v.o THEN v.o[k]
    ELSE IF v.t = "array" /\ k = "length" THEN Num(Len(v.a))
    ELSE IF v.t = "string" /\ k = "length" /\ "s" \in DOMAIN v
         THEN Num(Len(v.s))
    ELSE IF v.t = "string" /\ k = "length" /\ "chars" \in DOMAIN v
         THEN Num(Len(v.chars))
    ELSE Undef

\* a - b on numbers (NaN when an operand is not a number)
Sub(a, b) == IF IsNum(a) /\ IsNum(b) THEN Num(a.n - b.n) ELSE NaN

\* Math.max(a, b)
MathMax(a, b) ==
    IF IsNum(a) /\ IsNum(b) THEN (IF a.n >= b.n THEN a ELSE b) ELSE NaN

\* slide times are numbers of seconds, held in tenths
Scale == 10
Sec(n) == n * Scale

(***************************************************************************)
(* slideGenerator.ts                                                       *)
(***************************************************************************)
LayoutTypes ==
    {"title", "data-emphasis", "three-columns", "two-columns", "timeline",
     "bullet-points", "network-diagram", "bubble-chart", "arrow-steps",
     "formula-flow"}

\* nanoid(8): the i-th id drawn in a call whose random source is `seed`
Seeds == {1, 2}
NanoId(seed, i) == [t |-> "string", nano |-> <<seed, i>>]

\* the fields a Slide object carries; a field left out reads as undefined
EmptySlide ==
    [id |-> Undef, layoutType |-> Undef, title |-> Undef, content |-> Undef,
     emphasisNumber |-> Undef, emphasisLabel |-> Undef,
     leftColumn |-> Undef, rightColumn |-> Undef, steps |-> Undef,
     timelineItems |-> Undef, networkNodes |-> Undef, networkEdges |-> Undef,
     bubbles |-> Undef, arrowSteps |-> Undef, formula |-> Undef,
     notes |-> Undef, startTime |-> Undef, endTime |-> Undef,
     duration |-> Undef]

StrList(seq) == Arr([i \in 1..Len(seq) |-> Str(seq[i])])

\* mutant of Duration: the difference without the Math.max(1, ...)
DurationUnclamped(slide) ==
    Sub(Or(Get(slide, "endTime"), Num(0)), Or(Get(slide, "startTime"), Num(0)))

\* mutant of Duration: the two `|| 0` left out
DurationNoDefaults(slide) ==
    MathMax(Num(Sec(1)), Sub(Get(slide, "endTime"), Get(slide, "startTime")))

\* duration: Math.max(1, (slide.endTime || 0) - (slide.startTime || 0))
Duration(slide) ==
    MathMax(Num(Sec(1)),
            Sub(Or(Get(slide, "endTime"), Num(0)),
                Or(Get(slide, "startTime"), Num(0))))

\* mutant of BuildLayoutType: the field copied without its default
BuildLayoutTypeVerbatim(slide) == Get(slide, "layoutType")

\* layoutType: slide.layoutType || 'bullet-points'
BuildLayoutType(slide) == Or(Get(slide, "layoutType"), Str("bullet-points"))

\* the object literal of the .map callback (the same in both providers)
BuildSlide(slide, id) ==
    [id |-> id,
     layoutType |-> BuildLayoutType(slide),
     title |-> Or(Get(slide, "title"), Str("taitoru")),
     content |-> Or(Get(slide, "content"), Arr(<<>>)),
     emphasisNumber |-> Get(slide, "emphasisNumber"),
     emphasisLabel |-> Get(slide, "emphasisLabel"),
     leftColumn |-> Get(slide, "leftColumn"),
     rightColumn |-> Get(slide, "rightColumn"),
     steps |-> Get(slide, "steps"),
     timelineItems |-> Get(slide, "timelineItems"),
     networkNodes |-> Get(slide, "networkNodes"),
     networkEdges |-> Get(slide, "networkEdges"),
     bubbles |-> Get(slide, "bubbles"),
     arrowSteps |-> Get(slide, "arrowSteps"),
     formula |-> Get(slide, "formula"),
     notes |-> Or(Get(slide, "notes"), Str("")),
     startTime |-> Or(Get(slide, "startTime"), Num(0)),
     endTime |-> Or(Get(slide, "endTime"), Num(0)),
     duration |-> Duration(slide)]

\* function getMockSlides()
getMockSlides(seed) ==
    << [EmptySlide EXCEPT
          !.id = NanoId(seed, 1), !.layoutType = Str("title"),
          !.title = Str("jinkou chinou no kiso"), !.content = Arr(<<>>),
          !.notes = Str("opening title"),
          !.startTime = Num(Sec(0)), !.endTime = Num(Sec(15)),
          !.duration = Num(Sec(15))],
       [EmptySlide EXCEPT
          !.id = NanoId(seed, 2), !.layoutType = Str("data-emphasis"),
          !.title = Str("AI shijou no seichou"),
          !.content = StrList(<<"kyuusoku ni kakudai", "2030 nen made">>),
          !.emphasisNumber = Str("1.8 chou"),
          !.emphasisLabel = Str("doru kibo"),
          !.notes = Str("data emphasis layout"),
          !.startTime = Num(Sec(15)), !.endTime = Num(Sec(30)),
          !.duration = Num(Sec(15))],
       [EmptySlide EXCEPT
          !.id = NanoId(seed, 3), !.layoutType = Str("three-columns"),
          !.title = Str("AI no mittsu no hashira"), !.content = Arr(<<>>),
          !.steps = Arr(<<
              Obj([number |-> Str("01"), title |-> Str("kikai gakushuu"),
                   description |-> Str("data kara gakushuu")]),
              Obj([number |-> Str("02"), title |-> Str("shinsou gakushuu"),
                   description |-> Str("neural network")]),
              Obj([number |-> Str("03"), title |-> Str("seisei AI"),
                   description |-> Str("content seisei")]) >>),
          !.notes = Str("3 step layout"),
          !.startTime = Num(Sec(30)), !.endTime = Num(Sec(45)),
          !.duration = Num(Sec(15))],
       [EmptySlide EXCEPT
          !.id = NanoId(seed, 4), !.layoutType = Str("bullet-points"),
          !.title = Str("matome"),
          !.content = StrList(<<"AI wa seikatsu wo henkaku",
                               "tekisetsu na katsuyou", "keizoku teki na gakushuu">>),
          !.notes = Str("closing"),
          !.startTime = Num(Sec(45)), !.endTime = Num(Sec(60)),
          !.duration = Num(Sec(15))] >>

\* (x.slides || []).map(callback): a TypeError when the value has no .map
\* (anything truthy that is not an array) or when an element is null or
\* undefined (the callback reads slide.layoutType).
MapThrows(list) ==
    \/ ~IsArr(list)
    \/ \E i \in 1..Len(list.a) : GetThrows(list.a[i])

MapSlides(list, seed) ==
    [i \in 1..Len(list.a) |-> BuildSlide(list.a[i], NanoId(seed, i))]

\* What the collaborator answered: the call failed ("error"), it answered
\* nothing ("empty"), text without any brace ("prose"), text in braces that
\* is no JSON ("broken"), or the JSON text of value v ("json").
Reply(kind) == [kind |-> kind]
Json(v) == [kind |-> "json", v |-> v]

\* async function generateWithGemini(segments)
generateWithGemini(resp, seed) ==
    IF resp.kind = "error" THEN getMockSlides(seed)              \* catch
    ELSE IF resp.kind \in {"empty", "prose"} THEN getMockSlides(seed)
    ELSE IF resp.kind = "json" /\ resp.v.t # "object"
         THEN getMockSlides(seed)                                \* no {...}
    ELSE IF resp.kind = "broken" THEN getMockSlides(seed)        \* catch
    ELSE LET list == Or(Get(resp.v, "slides"), Arr(<<>>))
         IN  IF MapThrows(list) THEN getMockSlides(seed)         \* catch
             ELSE MapSlides(list, seed)

\* async function generateWithGPT(segments)
generateWithGPT(resp, seed) ==
    IF resp.kind = "error" THEN getMockSlides(seed)              \* catch
    ELSE IF resp.kind \in {"prose", "broken"} THEN getMockSlides(seed)
    ELSE LET \* content || '{"slides":[]}'
             result == IF resp.kind = "empty"
                       THEN Obj([slides |-> Arr(<<>>)]) ELSE resp.v
         IN  IF GetThrows(result) THEN getMockSlides(seed)       \* catch
             ELSE LET list == Or(Get(result, "slides"), Arr(<<>>))
                  IN  IF MapThrows(list) THEN getMockSlides(seed) \* catch
                      ELSE MapSlides(list, seed)

(***************************************************************************)
(* pptxGenerator.ts.  The file holds two versions of createPptx; the       *)
(* second (from line 164 on, with the ten layouts) is the one a module     *)
(* loader keeps and the one modelled.  What pptxgenjs does with a text or  *)
(* a coordinate that is not of the declared type is outside the            *)
(* repository; addText and addShape are taken to record their arguments.   *)
(***************************************************************************)
\* DESIGN.colors
colBackground == "FFFFFF"
colTextPrimary == "000000"
colTextSecondary == "333333"
colAccent == "000000"
colLightGray == "EEEEEE"
colMediumGray == "CCCCCC"

\* arithmetic on numbers that may be undefined or NaN
Half(a) == IF IsNum(a) THEN Num(a.n \div 2) ELSE NaN

\* slide.addText(text, {x, y, w, h, color})
TextV(text, x, y, w, h, color) ==
    [kind |-> "text", text |-> text, x |-> x, y |-> y, w |-> w, h |-> h,
     color |-> color]
Text(text, x, y, w, h, color) ==
    TextV(text, Num(x), Num(y), Num(w), Num(h), color)

\* slide.addShape(shape, {x, y, w, h, fill, line})
ShapeV(shape, x, y, w, h, fill, line) ==
    [kind |-> "shape", shape |-> shape, x |-> x, y |-> y, w |-> w, h |-> h,
     fill |-> fill, line |-> line]
Shape(shape, x, y, w, h, fill, line) ==
    ShapeV(shape, Num(x), Num(y), Num(w), Num(h), fill, line)

\* `* ${item}` and array.join('\n')
Bullet(item) == [t |-> "string", bullet |-> item]
Join(arr) == [t |-> "string", join |-> arr.a]

\* (v || []).forEach(...): a TypeError when the value has no .forEach
NotIterable(v) == ~IsArr(Or(v, Arr(<<>>)))
Items(v) == Or(v, Arr(<<>>)).a
\* the callback reads a property of every element
ElemThrows(v) == \E i \in 1..Len(Items(v)) : GetThrows(Items(v)[i])

\* the concatenation of f[1], ..., f[n]
RECURSIVE Flat(_, _)
Flat(f, n) == IF n = 0 THEN <<>> ELSE Flat(f, n - 1) \o f[n]

\* ---- Phase 1 layouts ----
renderTitleSlide(data) ==
    << Text(data.title, 500, 2000, 9000, 1500, colTextPrimary) >>

DataEmphasisThrows(data) ==
    /\ Truthy(data.content)
    /\ ~GetThrows(data.content)
    /\ LET n == Get(data.content, "length")
       IN  IsNum(n) /\ n.n > 0 /\ ~IsArr(data.content)    \* no .join

renderDataEmphasisSlide(data) ==
    << Text(data.title, 500, 500, 9000, 800, colTextPrimary) >>
    \o (IF Truthy(data.content) /\ IsArr(data.content)
           /\ Len(data.content.a) > 0
        THEN << Text(Join(data.content), 500, 1800, 4500, 2500,
                     colTextSecondary) >>
        ELSE <<>>)
    \o << Shape("line", 5200, 1500, 0, 3000, "none", colLightGray) >>
    \o (IF Truthy(data.emphasisNumber)
        THEN << Text(data.emphasisNumber, 5500, 1500, 4000, 2000,
                     colTextPrimary) >>
        ELSE <<>>)
    \o (IF Truthy(data.emphasisLabel)
        THEN << Text(data.emphasisLabel, 5500, 3500, 4000, 500,
                     colTextSecondary) >>
        ELSE <<>>)

ThreeColumnsThrows(data) == NotIterable(data.steps) \/ ElemThrows(data.steps)

columnWidth == 2800
columnStartX == 800
columnGap == 300
\* mutant of renderThreeColumnsSlide: the columns set side by side with no
\* gap between them
renderThreeColumnsSlideNoGap(data) ==
    LET steps == Items(data.steps)
        col(idx) ==
            LET x == columnStartX + (idx - 1) * columnWidth
                step == steps[idx]
            IN  << Text(Get(step, "number"), x, 1500, columnWidth, 1200,
                        colLightGray),
                   Text(Get(step, "title"), x, 2700, columnWidth, 600,
                        colTextPrimary),
                   Text(Get(step, "description"), x, 3300, columnWidth, 1000,
                        colTextSecondary) >>
    IN  << Text(data.title, 500, 500, 9000, 800, colTextPrimary) >>
        \o Flat([i \in 1..Len(steps) |-> col(i)], Len(steps))

renderThreeColumnsSlide(data) ==
    LET steps == Items(data.steps)
        col(idx) ==
            LET x == columnStartX + (idx - 1) * (columnWidth + columnGap)
                step == steps[idx]
            IN  << Text(Get(step, "number"), x, 1500, columnWidth, 1200,
                        colLightGray),
                   Text(Get(step, "title"), x, 2700, columnWidth, 600,
                        colTextPrimary),
                   Text(Get(step, "description"), x, 3300, columnWidth, 1000,
                        colTextSecondary) >>
    IN  << Text(data.title, 500, 500, 9000, 800, colTextPrimary) >>
        \o Flat([i \in 1..Len(steps) |-> col(i)], Len(steps))

TwoColumnsThrows(data) ==
    NotIterable(data.leftColumn) \/ NotIterable(data.rightColumn)

renderTwoColumnsSlide(data) ==
    LET left == Items(data.leftColumn)
        right == Items(data.rightColumn)
    IN  << Text(data.title, 500, 500, 9000, 800, colTextPrimary),
           Shape("line", 5000, 1500, 0, 3200, "none", colAccent),
           Text(Str("kadai"), 500, 1300, 4200, 500, colTextSecondary) >>
        \o [i \in 1..Len(left) |->
              Text(Bullet(left[i]), 500, 1900 + (i - 1) * 700, 4200, 600,
                   colTextSecondary)]
        \o << Text(Str("kaiketsusaku"), 5300, 1300, 4200, 500,
                   colTextPrimary) >>
        \o [i \in 1..Len(right) |->
              Text(Bullet(right[i]), 5300, 1900 + (i - 1) * 700, 4200, 600,
                   colTextPrimary)]

TimelineThrows(data) ==
    NotIterable(data.timelineItems) \/ ElemThrows(data.timelineItems)

renderTimelineSlide(data) ==
    LET items == Items(data.timelineItems)
        row(idx) ==
            LET y == 1500 + (idx - 1) * 1100
            IN  << Text(Get(items[idx], "year"), 500, y, 2500, 900,
                        colTextPrimary),
                   Shape("line", 3200, y + 100, 0, 700, "none", colLightGray),
                   Text(Get(items[idx], "description"), 3500, y, 6000, 900,
                        colTextSecondary) >>
    IN  << Text(data.title, 500, 500, 9000, 800, colTextPrimary) >>
        \o Flat([i \in 1..Len(items) |-> row(i)], Len(items))

BulletPointsThrows(data) == NotIterable(data.content)

renderBulletPointsSlide(data) ==
    LET content == Items(data.content)
    IN  << Text(data.title, 500, 500, 9000, 1000, colTextPrimary) >>
        \o [i \in 1..Len(content) |->
              Text(Bullet(content[i]), 800, 1800 + (i - 1) * 900, 8400, 800,
                   colTextSecondary)]

\* ---- Phase 2 layouts ----
\* A property key is a string: String(undefined) is "undefined".
ToKey(v) ==
    CASE v.t = "string" /\ "s" \in DOMAIN v -> v.s
      [] v.t = "undefined" -> "undefined"
      [] v.t = "null" -> "null"
      [] OTHER -> "[object]"

\* nodePositions is a plain object ({}): a key that is no own property is
\* looked up on Object.prototype, whose members are functions.
ObjectPrototypeKeys ==
    {"constructor", "toString", "valueOf", "hasOwnProperty",
     "isPrototypeOf", "propertyIsEnumerable", "toLocaleString"}

\* sin and cos of 2*pi*idx/n in thousandths, for the node counts modelled
Sin1000(idx, n) ==
    CASE n = 3 /\ idx = 1 -> 866
      [] n = 3 /\ idx = 2 -> -866
      [] n = 4 /\ idx = 1 -> 1000
      [] n = 4 /\ idx = 3 -> -1000
      [] OTHER -> 0
Cos1000(idx, n) ==
    CASE idx = 0 -> 1000
      [] n = 2 -> -1000
      [] n = 3 -> -500
      [] n = 4 /\ idx = 2 -> -1000
      [] OTHER -> 0

networkCenterX == 5000
networkCenterY == 2800
networkRadius == 1800

\* angle = 2*pi*idx/n - pi/2: cos(angle) = sin(2*pi*idx/n) and
\* sin(angle) = -cos(2*pi*idx/n); idx counts from 0
NodeX(idx, n) == networkCenterX + (networkRadius * Sin1000(idx, n)) \div 1000
NodeY(idx, n) == networkCenterY - (networkRadius * Cos1000(idx, n)) \div 1000

\* nodePositions after the nodes.forEach: the last node of a key wins
NodeKeys(nodes) == {ToKey(Get(nodes[i], "id")) : i \in 1..Len(nodes)}
LastIndex(nodes, key) ==
    CHOOSE i \in 1..Len(nodes) :
        /\ ToKey(Get(nodes[i], "id")) = key
        /\ \A j \in (i + 1)..Len(nodes) : ToKey(Get(nodes[j], "id")) # key
\* nodePositions[id]
NodePosition(nodes, id) ==
    LET key == ToKey(id)
    IN  IF key \in NodeKeys(nodes)
        THEN LET i == LastIndex(nodes, key)
             IN  Obj([x |-> Num(NodeX(i - 1, Len(nodes))),
                      y |-> Num(NodeY(i - 1, Len(nodes)))])
        ELSE IF key \in ObjectPrototypeKeys THEN Fn(key)
        ELSE Undef

NetworkDiagramThrows(data) ==
    \/ NotIterable(data.networkNodes) \/ ElemThrows(data.networkNodes)
    \/ NotIterable(data.networkEdges) \/ ElemThrows(data.networkEdges)

\* the edges.forEach callback: the primitives one edge adds
EdgePrims(nodes, edge) ==
    LET from == NodePosition(nodes, Get(edge, "from"))
        to == NodePosition(nodes, Get(edge, "to"))
    IN  IF Truthy(from) /\ Truthy(to)
        THEN << ShapeV("line", Get(from, "x"), Get(from, "y"),
                       Sub(Get(to, "x"), Get(from, "x")),
                       Sub(Get(to, "y"), Get(from, "y")),
                       "none", colMediumGray) >>
        ELSE <<>>

renderNetworkDiagramSlide(data) ==
    LET nodes == Items(data.networkNodes)
        edges == Items(data.networkEdges)
        n == Len(nodes)
        node(idx) ==
            LET x == NodeX(idx - 1, n)
                y == NodeY(idx - 1, n)
            IN  << Shape("ellipse", x - 500, y - 300, 1000, 600,
                         colBackground, colTextPrimary),
                   Text(Get(nodes[idx], "label"), x - 600, y - 200, 1200, 400,
                        colTextPrimary) >>
    IN  << Text(data.title, 500, 300, 9000, 700, colTextPrimary) >>
        \o Flat([i \in 1..n |-> node(i)], n)
        \o Flat([i \in 1..Len(edges) |-> EdgePrims(nodes, edges[i])],
                Len(edges))

BubbleChartThrows(data) ==
    NotIterable(data.bubbles) \/ ElemThrows(data.bubbles)

\* sizeMap[bubble.size]
SizeMap(size) ==
    LET key == ToKey(size)
    IN  CASE key = "large" -> Num(2500)
          [] key = "medium" -> Num(1800)
          [] key = "small" -> Num(1200)
          [] key \in ObjectPrototypeKeys -> Fn(key)
          [] OTHER -> Undef

\* mutant of renderBubbleChartSlide: a bubble is moved to the left by 0.4 for
\* each bubble its overlap list names
renderBubbleChartSlideByOverlap(data) ==
    LET bubbles == Items(data.bubbles)
        n == Len(bubbles)
        bubble(idx) ==
            LET size == SizeMap(Get(bubbles[idx], "size"))
                x == 5000 + (2 * (idx - 1) - n) * 400
                     - 400 * Len(Items(Get(bubbles[idx], "overlap")))
                y == 2800
            IN  << ShapeV("ellipse", Sub(Num(x), Half(size)),
                          Sub(Num(y), Half(size)), size, size,
                          colBackground, colTextPrimary),
                   Text(Get(bubbles[idx], "label"), x - 1000, y - 200, 2000,
                        400, colTextPrimary) >>
    IN  << Text(data.title, 500, 300, 9000, 700, colTextPrimary) >>
        \o Flat([i \in 1..n |-> bubble(i)], n)

renderBubbleChartSlide(data) ==
    LET bubbles == Items(data.bubbles)
        n == Len(bubbles)
        bubble(idx) ==
            LET size == SizeMap(Get(bubbles[idx], "size"))
                \* (idx - n/2) * 0.8, idx counting from 0
                x == 5000 + (2 * (idx - 1) - n) * 400
                y == 2800
            IN  << ShapeV("ellipse", Sub(Num(x), Half(size)),
                          Sub(Num(y), Half(size)), size, size,
                          colBackground, colTextPrimary),
                   Text(Get(bubbles[idx], "label"), x - 1000, y - 200, 2000,
                        400, colTextPrimary) >>
    IN  << Text(data.title, 500, 300, 9000, 700, colTextPrimary) >>
        \o Flat([i \in 1..n |-> bubble(i)], n)

ArrowStepsThrows(data) ==
    NotIterable(data.arrowSteps) \/ ElemThrows(data.arrowSteps)

renderArrowStepsSlide(data) ==
    LET steps == Items(data.arrowSteps)
        stepCount == Len(steps)
        arrowWidth == 9000 \div stepCount
        step(i) ==
            LET idx == i - 1
                x == 500 + idx * arrowWidth
                y == 2200
                isLast == idx = stepCount - 1
                even == idx % 2 = 0
            IN  (IF ~isLast
                 THEN << Shape("rect", x, y, arrowWidth - 300, 1200,
                               IF even THEN colTextPrimary ELSE colLightGray,
                               "none"),
                         Shape("triangle", x + arrowWidth - 500, y - 200, 400,
                               1600,
                               IF even THEN colTextPrimary ELSE colLightGray,
                               "none") >>
                 ELSE << Shape("rect", x, y, arrowWidth - 100, 1200,
                               colTextPrimary, "none") >>)
                \o << Text(Get(steps[i], "label"), x + 100, y + 200,
                           arrowWidth - 400, 400,
                           IF even THEN colBackground ELSE colTextPrimary) >>
                \o (IF Truthy(Get(steps[i], "description"))
                    THEN << Text(Get(steps[i], "description"), x + 100,
                                 y + 600, arrowWidth - 400, 400,
                                 IF even THEN colBackground
                                 ELSE colTextSecondary) >>
                    ELSE <<>>)
    IN  << Text(data.title, 500, 300, 9000, 700, colTextPrimary) >>
        \o Flat([i \in 1..stepCount |-> step(i)], stepCount)

\* mutant of renderFormulaFlowSlide: the `if (!formula) return` left out
renderFormulaFlowSlideUnguarded(data) ==
    LET formula == data.formula
        centerY == 2500
    IN  << Text(data.title, 500, 500, 9000, 800, colTextPrimary),
           Text(Get(formula, "left"), 500, centerY, 2200, 1000, colTextPrimary),
           Text(Get(formula, "operator"), 2700, centerY, 1000, 1000,
                colMediumGray),
           Text(Get(formula, "right"), 3700, centerY, 2200, 1000,
                colTextPrimary),
           Text(Str("="), 5900, centerY, 1000, 1000, colMediumGray),
           Text(Get(formula, "result"), 6900, centerY, 2600, 1000,
                colTextPrimary) >>

renderFormulaFlowSlide(data) ==
    LET formula == data.formula
        centerY == 2500
    IN  << Text(data.title, 500, 500, 9000, 800, colTextPrimary) >>
        \o (IF ~Truthy(formula) THEN <<>>
            ELSE << Text(Get(formula, "left"), 500, centerY, 2200, 1000,
                         colTextPrimary),
                    Text(Get(formula, "operator"), 2700, centerY, 1000, 1000,
                         colMediumGray),
                    Text(Get(formula, "right"), 3700, centerY, 2200, 1000,
                         colTextPrimary),
                    Text(Str("="), 5900, centerY, 1000, 1000, colMediumGray),
                    Text(Get(formula, "result"), 6900, centerY, 2600, 1000,
                         colTextPrimary) >>)

\* ---- interface Slide of pptxGenerator.ts: the payload as it is typed ----
IsStr(v) == v.t = "string"
IsStrList(v) == IsArr(v) /\ \A i \in DOMAIN v.a : IsStr(v.a[i])
\* an array of objects whose `required` fields are strings and whose
\* `optional` fields are strings or left out
IsRecordList(v, required, optional) ==
    /\ IsArr(v)
    /\ \A i \in DOMAIN v.a :
          /\ v.a[i].t = "object"
          /\ \A f \in required : IsStr(Get(v.a[i], f))
          /\ \A f \in optional : Get(v.a[i], f) = Undef \/ IsStr(Get(v.a[i], f))
IsTypedSlide(data) ==
    /\ IsStr(data.title)
    /\ IsStrList(data.content)
    /\ data.emphasisNumber = Undef \/ IsStr(data.emphasisNumber)
    /\ data.emphasisLabel = Undef \/ IsStr(data.emphasisLabel)
    /\ data.leftColumn = Undef \/ IsStrList(data.leftColumn)
    /\ data.rightColumn = Undef \/ IsStrList(data.rightColumn)
    /\ data.steps = Undef
       \/ IsRecordList(data.steps, {"number", "title", "description"}, {})
    /\ data.timelineItems = Undef
       \/ IsRecordList(data.timelineItems, {"year", "description"}, {})
    /\ data.networkNodes = Undef
       \/ IsRecordList(data.networkNodes, {"id", "label"}, {})
    /\ data.networkEdges = Undef
       \/ IsRecordList(data.networkEdges, {"from", "to"}, {})
    /\ data.bubbles = Undef
       \/ IsRecordList(data.bubbles, {"label", "size"}, {})
    /\ data.arrowSteps = Undef
       \/ IsRecordList(data.arrowSteps, {"label"}, {"description"})
    /\ data.formula = Undef \/ data.formula.t = "object"
    /\ IsStr(data.notes)
    /\ IsNum(data.startTime) /\ IsNum(data.endTime) /\ IsNum(data.duration)
IsTypedDeck(deck) == \A i \in DOMAIN deck : IsTypedSlide(deck[i])

\* ---- formatTime and createPptx ----
Digit(d) == CASE d = 0 -> "0" [] d = 1 -> "1" [] d = 2 -> "2" [] d = 3 -> "3"
              [] d = 4 -> "4" [] d = 5 -> "5" [] d = 6 -> "6" [] d = 7 -> "7"
              [] d = 8 -> "8" [] d = 9 -> "9"

\* Number.prototype.toString of an integer, as a sequence of characters
RECURSIVE NatToString(_)
NatToString(n) ==
    IF n < 10 THEN << Digit(n) >>
    ELSE NatToString(n \div 10) \o << Digit(n % 10) >>
IntToString(n) == IF n < 0 THEN << "-" >> \o NatToString(-n) ELSE NatToString(n)

\* mutant of PadStart2: no padding
PadStartNone(s) == s

\* s.padStart(2, '0')
PadStart2(s) == IF Len(s) >= 2 THEN s ELSE << "0" >> \o s

\* a % b of JavaScript: the sign of the dividend
JsRem(a, b) == IF a >= 0 THEN a % b ELSE -((-a) % b)

\* function formatTime(seconds); seconds in tenths, \div is the floor
Minutes(seconds) == seconds \div Sec(60)
Seconds(seconds) == JsRem(seconds, Sec(60)) \div Scale
formatTime(seconds) ==
    IF IsNum(seconds)
    THEN PadStart2(IntToString(Minutes(seconds.n))) \o << ":" >>
         \o PadStart2(IntToString(Seconds(seconds.n)))
    ELSE << "N", "a", "N", ":", "N", "a", "N" >>

\* `${formatTime(slideData.startTime)} - ${formatTime(slideData.endTime)}`
FooterText(data) ==
    formatTime(data.startTime) \o << " ", "-", " " >> \o formatTime(data.endTime)

\* the switch of createPptx compares with ===
LayoutIs(data, name) == data.layoutType = Str(name)

RenderThrows(data) ==
    CASE LayoutIs(data, "title") -> FALSE
      [] LayoutIs(data, "data-emphasis") -> DataEmphasisThrows(data)
      [] LayoutIs(data, "three-columns") -> ThreeColumnsThrows(data)
      [] LayoutIs(data, "two-columns") -> TwoColumnsThrows(data)
      [] LayoutIs(data, "timeline") -> TimelineThrows(data)
      [] LayoutIs(data, "network-diagram") -> NetworkDiagramThrows(data)
      [] LayoutIs(data, "bubble-chart") -> BubbleChartThrows(data)
      [] LayoutIs(data, "arrow-steps") -> ArrowStepsThrows(data)
      [] LayoutIs(data, "formula-flow") -> FALSE
      [] OTHER -> BulletPointsThrows(data)

RenderLayout(data) ==
    CASE LayoutIs(data, "title") -> renderTitleSlide(data)
      [] LayoutIs(data, "data-emphasis") -> renderDataEmphasisSlide(data)
      [] LayoutIs(data, "three-columns") -> renderThreeColumnsSlide(data)
      [] LayoutIs(data, "two-columns") -> renderTwoColumnsSlide(data)
      [] LayoutIs(data, "timeline") -> renderTimelineSlide(data)
      [] LayoutIs(data, "network-diagram") -> renderNetworkDiagramSlide(data)
      [] LayoutIs(data, "bubble-chart") -> renderBubbleChartSlide(data)
      [] LayoutIs(data, "arrow-steps") -> renderArrowStepsSlide(data)
      [] LayoutIs(data, "formula-flow") -> renderFormulaFlowSlide(data)
      [] OTHER -> renderBulletPointsSlide(data)

\* the footer primitive of createPptx
Footer(data) == Text(Chars(FooterText(data)), 500, 5200, 2000, 300,
                     colTextSecondary)

\* mutant of AdvanceAfter: the end time taken for the duration
AdvanceAfterEndTime(data) == data.endTime

\* slide.advanceAfter = slideData.duration
AdvanceAfter(data) == data.duration

\* mutant of SlideNotes: addNotes called without the test
SlideNotesUnguarded(data) == data.notes

\* if (slideData.notes) slide.addNotes(slideData.notes)
SlideNotes(data) == IF Truthy(data.notes) THEN data.notes ELSE Undef

\* one iteration of the for loop of createPptx that runs to its end
OutputSlide(data) ==
    [background |-> colBackground,
     prims |-> RenderLayout(data) \o << Footer(data) >>,
     notes |-> SlideNotes(data),
     transition |-> "fade",
     advanceAfter |-> AdvanceAfter(data)]

\* mutant of AddSlides: a slide equal to the one before it is left out
RECURSIVE AddSlidesDeduplicated(_, _, _)
AddSlidesDeduplicated(deck, i, added) ==
    IF i > Len(deck) THEN [status |-> "written", slides |-> added]
    ELSE IF RenderThrows(deck[i]) THEN [status |-> "threw", at |-> i]
    ELSE IF added # <<>> /\ added[Len(added)] = OutputSlide(deck[i])
         THEN AddSlidesDeduplicated(deck, i + 1, added)
    ELSE AddSlidesDeduplicated(deck, i + 1,
                               Append(added, OutputSlide(deck[i])))

\* for (const slideData of slides) { ... }: the slides added to the
\* presentation, in the order of addSlide, or a TypeError out of a renderer
RECURSIVE AddSlides(_, _, _)
AddSlides(deck, i, added) ==
    IF i > Len(deck) THEN [status |-> "written", slides |-> added]
    ELSE IF RenderThrows(deck[i]) THEN [status |-> "threw", at |-> i]
    ELSE AddSlides(deck, i + 1, Append(added, OutputSlide(deck[i])))

\* export async function createPptx(slides, outputDir, projectId): the
\* file written by pptx.writeFile, or the exception that leaves no file
createPptx(deck) == AddSlides(deck, 1, <<>>)

(***************************************************************************)
(* textSegmentation.ts                                                     *)
(***************************************************************************)
CHARS_PER_MINUTE == 320

Min(a, b) == IF a <= b THEN a ELSE b
Max(a, b) == IF a >= b THEN a ELSE b

\* Math.round((charCount / CHARS_PER_MINUTE) * 60): the nearest integer,
\* a half going up.  The double arithmetic of the source gives another
\* integer than this exact one only from 328 characters on (61.5), where
\* the clamp to 60 decides.
RoundedSeconds(charCount) ==
    (2 * 60 * charCount + CHARS_PER_MINUTE) \div (2 * CHARS_PER_MINUTE)

\* const charCount = text.length
CharCount(text) == Get(text, "length").n

\* mutant of SegmentDuration: the lower clamp left out
SegmentDurationNoMinimum(text) == Min(60, RoundedSeconds(CharCount(text)))

\* Math.max(3, Math.min(60, Math.round(durationSeconds)))
SegmentDuration(text) == Max(3, Min(60, RoundedSeconds(CharCount(text))))

\* the for loop of assignTimestamps
RECURSIVE TimestampLoop(_, _, _, _)
TimestampLoop(list, i, currentTime, acc) ==
    IF i > Len(list) THEN acc
    ELSE LET duration == SegmentDuration(list[i])
         IN  TimestampLoop(list, i + 1, currentTime + duration,
                           Append(acc, [start |-> currentTime,
                                        end |-> currentTime + duration,
                                        text |-> list[i]]))

\* function assignTimestamps(texts)
assignTimestamps(list) == TimestampLoop(list, 1, 0, <<>>)

(***************************************************************************)
(* Inputs.                                                                 *)
(***************************************************************************)
RECURSIVE Rep(_, _)
Rep(c, n) ==
    IF n = 0 THEN ""
    ELSE IF n % 2 = 0 THEN LET half == Rep(c, n \div 2) IN half \o half
    ELSE Rep(c, n - 1) \o c

\* "konni." and "tsuginote" stand for the 6 and 9 characters of the two
\* texts of the documented scenario
ScenarioTexts == << Str("konni."), Str("tsuginote") >>
TextLengths == {0, 8, 16, 19, 24, 100, 317, 320, 328, 400}
\* the text `core` followed by n spaces
Padded(core, n) == Str(core \o Rep(" ", n))
TextPool ==
    {ScenarioTexts[1], ScenarioTexts[2], Str("a b  c"), Str("abc"),
     Padded(Rep("x", 16), 8)}
    \cup {Str(Rep("x", n)) : n \in TextLengths}

\* all sequences over S of the lengths lo..hi
SeqsOf(S, lo, hi) == UNION {[1..n -> S] : n \in lo..hi}

Merge(r1, r2) ==
    [k \in DOMAIN r1 \cup DOMAIN r2 |-> IF k \in DOMAIN r2 THEN r2[k] ELSE r1[k]]

\* timings as the Slide interface types them: a number of seconds, or left
\* out or null.  In a raw slide a field of value Undef stands for a field
\* the JSON text leaves out: both read as undefined.
TimeValues ==
    {Undef, Null, Num(0), Num(5), Num(-Sec(5)), Num(Sec(15)), Num(Sec(65)),
     Num(Sec(130)), Num(Sec(5999) + 9), Num(Sec(6000))}

LayoutValues ==
    {Undef, Null, Str(""), Str("pie-chart")} \cup {Str(l) : l \in LayoutTypes}

NodeIds == {"a", "b"}
Node(id) == Obj([id |-> Str(id), label |-> Str(id)])
Edge(from, to) == Obj([from |-> Str(from), to |-> Str(to)])
EdgePool ==
    {Edge("a", "b"), Edge("b", "a"), Edge("a", "a"), Edge("a", "z"),
     Edge("z", "b"), Edge("constructor", "a")}

NetworkPayloads ==
    {[networkNodes |-> Arr([i \in DOMAIN ns |-> Node(ns[i])]),
      networkEdges |-> Arr(es)] :
        ns \in SeqsOf(NodeIds, 0, MaxNodes), es \in SeqsOf(EdgePool, 0, MaxEdges)}

Step(n) == Obj([number |-> Str(n), title |-> Str("t"), description |-> Str("d")])
WellFormedPayloads ==
    {[content |-> StrList(<<"p", "q">>), emphasisNumber |-> Str("85%"),
      emphasisLabel |-> Str("rate")],
     [steps |-> Arr(<<Step("01"), Step("02"), Step("03")>>)],
     [steps |-> Arr(<<Step("01")>>)],
     [steps |-> Arr(<<Step("01"), Step("02"), Step("03"), Step("04")>>)],
     [leftColumn |-> StrList(<<"l">>), rightColumn |-> StrList(<<"r", "s">>)],
     [timelineItems |-> Arr(<<Obj([year |-> Str("2024"),
                                   description |-> Str("e")])>>)],
     [networkNodes |-> Arr(<<Node("a"), Node("b")>>),
      networkEdges |-> Arr(<<Edge("a", "b")>>)],
     [bubbles |-> Arr(<<Obj([label |-> Str("A"), size |-> Str("large")]),
                        Obj([label |-> Str("B"), size |-> Str("small"),
                             overlap |-> StrList(<<"A">>)])>>)],
     [arrowSteps |-> Arr(<<Obj([label |-> Str("s1")]),
                           Obj([label |-> Str("s2"),
                                description |-> Str("d2")])>>)],
     [formula |-> Obj([left |-> Str("data"), operator |-> Str("x"),
                       right |-> Str("AI"), result |-> Str("insight")])]}

\* payloads with a field of the wrong type, or left out
MalformedPayloads ==
    {[extra |-> Num(1)],
     [content |-> Str("abc")],
     [steps |-> Str("abc")],
     [steps |-> Arr(<<Null>>)],
     [leftColumn |-> Num(3)],
     [timelineItems |-> Obj([year |-> Str("2024")])],
     [networkNodes |-> Obj([a |-> Str("b")]), networkEdges |-> Arr(<<>>)],
     [networkNodes |-> Arr(<<Node("a")>>), networkEdges |-> Arr(<<Null>>)],
     [bubbles |-> Arr(<<Obj([label |-> Str("A"), size |-> Str("huge")])>>)],
     [bubbles |-> Str("abc")],
     [arrowSteps |-> Num(2)],
     [formula |-> Str("a x b")],
     [formula |-> Null]}

RawSlide(fields) == Obj(fields)

TimingSlides ==
    {RawSlide([title |-> Str("T"), startTime |-> s, endTime |-> e]) :
        s \in TimeValues, e \in TimeValues}
LayoutSlides ==
    {RawSlide(Merge([layoutType |-> l, title |-> Str("L"),
                     startTime |-> Num(Sec(1)), endTime |-> Num(Sec(3))], p)) :
        l \in LayoutValues, p \in WellFormedPayloads \cup MalformedPayloads}
NetworkSlides ==
    {RawSlide(Merge([layoutType |-> Str("network-diagram"),
                     endTime |-> Num(Sec(9))], p)) : p \in NetworkPayloads}
NotesSlides ==
    {RawSlide([layoutType |-> Str("title"), title |-> t, notes |-> n]) :
        t \in {Undef, Str(""), Str("N")},
        n \in {Undef, Null, Str(""), Str("memo")}}

RawSlidePool ==
    TimingSlides \cup LayoutSlides \cup NetworkSlides \cup NotesSlides
    \cup {Null, Str("slide")}

\* the slides that decks of several slides are made of
MixedPool ==
    {RawSlide([layoutType |-> Str("title"), title |-> Str("A"),
               startTime |-> Num(0), endTime |-> Num(Sec(15))]),
     RawSlide([title |-> Str("B"), content |-> StrList(<<"p">>),
               notes |-> Str("memo"),
               startTime |-> Num(Sec(15)), endTime |-> Num(Sec(10))]),
     RawSlide([layoutType |-> Str("three-columns"), title |-> Str("C"),
               steps |-> Str("abc")]),
     RawSlide([layoutType |-> Str("formula-flow"), title |-> Str("D")]),
     Null}

Decks ==
    {<<r>> : r \in RawSlidePool} \cup SeqsOf(MixedPool, 0, MaxSlides)

\* the values of the `slides` property of the answered object
SlidesValues ==
    {Null, Str("none"), Num(3), Obj([count |-> Num(0)])}
    \cup {Arr(d) : d \in Decks}

Responses ==
    {Reply("error"), Reply("empty"), Reply("prose"), Reply("broken"),
     Json(Null), Json(Obj([title |-> Str("T")]))}
    \cup {Json(Obj([slides |-> v])) : v \in SlidesValues}

(***************************************************************************)
(* The generate-slides request: generateSlides, then createPptx.           *)
(***************************************************************************)
\* the environment variables read when slideGenerator.ts is loaded
Environments ==
    [gemini : BOOLEAN,        \* GEMINI_API_KEY
     azure : BOOLEAN,         \* AZURE_OPENAI_API_KEY and AZURE_OPENAI_ENDPOINT
     deployment : BOOLEAN]    \* AZURE_OPENAI_DEPLOYMENT_NAME

isDevelopmentMode(env) == ~env.gemini /\ ~env.azure
gptClient(env) == env.azure /\ env.deployment

\* which provider generateSlides calls
Provider(env) ==
    IF isDevelopmentMode(env) THEN "mock"
    ELSE IF env.gemini THEN "gemini"
    ELSE IF gptClient(env) THEN "gpt"
    ELSE "mock"

\* export async function generateSlides(segments)
generateSlides(env, resp, seed) ==
    IF isDevelopmentMode(env) THEN getMockSlides(seed)
    ELSE IF env.gemini THEN generateWithGemini(resp, seed)
    ELSE IF gptClient(env) THEN generateWithGPT(resp, seed)
    ELSE getMockSlides(seed)

NoReply == Reply("none")
NoPptx == [status |-> "none"]

\* the parts of the state a specification leaves alone
GenRequests == 1..MaxGenRequests
NoProject ==
    [exists |-> FALSE, segments |-> Undef, slides |-> Undef, pptxPath |-> Undef]
NoRequest == [pc |-> "off"]
ServerIdle ==
    /\ project = NoProject
    /\ transcription = [state |-> "none"]
    /\ poll = NoRequest
    /\ gen = [r \in GenRequests |-> NoRequest]
    /\ cor = NoRequest
    /\ calls = {}
    /\ file = NoPptx
VoiceIdle == voice = [pc |-> "off"]
ServiceIdle == correction = [pc |-> "off"] /\ segmentation = [pc |-> "off"]

CoreInit ==
    /\ mode \in Environments
    /\ response = NoReply
    /\ slides = <<>>
    /\ pptx = NoPptx
    /\ pc = "idle"

TimerIdle ==
    /\ texts = <<>>
    /\ segments = <<>>
    /\ tpc = "off"

Init == CoreInit /\ TimerIdle /\ ServerIdle /\ VoiceIdle /\ ServiceIdle

\* generateSlides resolves: the collaborator (when one is called) answers
\* resp, nanoid draws from seed
GenerateSlides ==
    /\ pc = "idle"
    /\ \E resp \in Responses, seed \in Seeds :
          /\ response' = IF Provider(mode) = "mock" THEN NoReply ELSE resp
          /\ slides' = generateSlides(mode, resp, seed)
    /\ pc' = "generated"
    /\ UNCHANGED <<mode, pptx>>
    /\ UNCHANGED <<timerVars, serverVars, voiceVars, serviceVars>>

\* createPptx settles: the file is written, or it rejects
CreatePptx ==
    /\ pc = "generated"
    /\ pptx' = createPptx(slides)
    /\ pc' = "done"
    /\ UNCHANGED <<mode, response, slides>>
    /\ UNCHANGED <<timerVars, serverVars, voiceVars, serviceVars>>

Next == GenerateSlides \/ CreatePptx

Spec == Init /\ [][Next]_vars

(***************************************************************************)
(* The timer run: assignTimestamps on a list of texts.                     *)
(***************************************************************************)
CoreIdle ==
    /\ mode = [gemini |-> FALSE, azure |-> FALSE, deployment |-> FALSE]
    /\ response = NoReply
    /\ slides = <<>>
    /\ pptx = NoPptx
    /\ pc = "off"

TimerInit ==
    /\ CoreIdle /\ ServerIdle /\ VoiceIdle /\ ServiceIdle
    /\ texts \in SeqsOf(TextPool, 0, MaxTexts)
    /\ segments = <<>>
    /\ tpc = "idle"

AssignTimestamps ==
    /\ tpc = "idle"
    /\ segments' = assignTimestamps(texts)
    /\ tpc' = "done"
    /\ UNCHANGED texts
    /\ UNCHANGED <<coreVars, serverVars, voiceVars, serviceVars>>

TimerNext == AssignTimestamps

SpecTimer == TimerInit /\ [][TimerNext]_vars

(***************************************************************************)
(* The server (src/unnamed/part_000): one project of `projects`, the       *)
(* upload that creates it, and the requests for it.  A handler runs from   *)
(* one await to the next without interruption; each action is one such     *)
(* run.                                                                    *)
(***************************************************************************)
\* Segment of speechToText.ts
Seg(start, end, text) ==
    Obj([start |-> Num(Sec(start)), end |-> Num(Sec(end)), text |-> Str(text)])
\* function getMockSegments()
getMockSegments ==
    Arr(<< Seg(0, 15, "konnichiwa"), Seg(15, 30, "jinkou chinou wa"),
           Seg(30, 45, "tokuni kikai gakushuu"), Seg(45, 60, "kongo mo") >>)

\* whether transcribeAudio calls a collaborator: Gemini when its key is
\* set, else Whisper when AZURE_OPENAI_WHISPER_DEPLOYMENT_NAME is set too
TranscribesExternally(env, whisper) ==
    ~isDevelopmentMode(env) /\ (env.gemini \/ whisper)

\* what transcribeAudio resolves with
TranscriptionResults(external) ==
    IF external
    THEN {Arr(<<>>), Arr(<< Seg(0, 4, "hai") >>), getMockSegments, Undef}
    ELSE {getMockSegments}

TranscriptionCall == [kind |-> "transcription", req |-> 0]

\* segments.map((seg, idx) => ({ id: nanoid(8), ...seg }))
WithIds(list) ==
    Arr([i \in 1..Len(list.a) |->
            Obj(Merge([id |-> NanoId(0, i)], list.a[i].o))])

\* app.post('/api/upload'): the project is created and transcribeAudio is
\* started, not awaited
Upload ==
    /\ ~project.exists
    /\ \E whisper \in BOOLEAN :
          LET external == TranscribesExternally(mode, whisper)
          IN  /\ transcription' = [state |-> "pending", external |-> external]
              /\ calls' = IF external THEN calls \cup {TranscriptionCall}
                          ELSE calls
    /\ project' = [exists |-> TRUE, segments |-> Arr(<<>>),
                   slides |-> Arr(<<>>), pptxPath |-> Undef]
    /\ UNCHANGED <<mode, poll, gen, cor, file>>
    /\ UNCHANGED <<response, slides, pptx, pc, timerVars, voiceVars, serviceVars>>

\* transcribeAudio(audioPath).then(...): a result without .map throws in
\* the callback and ends in .catch
TranscriptionResolves ==
    /\ transcription.state = "pending"
    /\ \E result \in TranscriptionResults(transcription.external) :
          project' = IF IsArr(result)
                     THEN [project EXCEPT !.segments = WithIds(result)]
                     ELSE project
    /\ transcription' = [transcription EXCEPT !.state = "resolved"]
    /\ calls' = calls \ {TranscriptionCall}
    /\ UNCHANGED <<mode, poll, gen, cor, file>>
    /\ UNCHANGED <<response, slides, pptx, pc, timerVars, voiceVars, serviceVars>>

\* transcribeAudio(audioPath).catch(...)
TranscriptionRejects ==
    /\ transcription.state = "pending"
    /\ transcription.external
    /\ transcription' = [transcription EXCEPT !.state = "rejected"]
    /\ calls' = calls \ {TranscriptionCall}
    /\ UNCHANGED <<mode, project, poll, gen, cor, file>>
    /\ UNCHANGED <<response, slides, pptx, pc, timerVars, voiceVars, serviceVars>>

\* ---- app.get('/api/project/:id/transcription') ----
MaxAttempts == 60
PollInterval == 1000

\* res.status(code).json(body)
Answered(code, body) == [pc |-> "answered", status |-> code, body |-> body]

\* mutant of LoopContinues: <= for <
LoopContinuesOffByOne(segs, attempts) ==
    Get(segs, "length") = Num(0) /\ attempts <= MaxAttempts

\* while (project.segments.length === 0 && attempts < 60)
LoopContinues(segs, attempts) ==
    Get(segs, "length") = Num(0) /\ attempts < MaxAttempts

\* the handler from a test of the loop condition on: it arms the timer of
\* one second, or leaves the loop and answers
PollFrom(segs, attempts, waited) ==
    IF LoopContinues(segs, attempts)
    THEN [pc |-> "sleeping", attempts |-> attempts, waited |-> waited,
          seen |-> segs]
    ELSE Merge([attempts |-> attempts, waited |-> waited, seen |-> segs],
               IF Get(segs, "length") = Num(0)
               THEN Answered(408, Undef)
               ELSE Answered(200, segs))

\* the request arrives: 404 without the project, else the first test
PollRequest ==
    /\ poll.pc = "idle"
    /\ poll' = IF ~project.exists
               THEN Merge([attempts |-> 0, waited |-> 0, seen |-> Undef],
                          Answered(404, Undef))
               ELSE PollFrom(project.segments, 0, 0)
    /\ UNCHANGED <<mode, project, transcription, gen, cor, calls, file>>
    /\ UNCHANGED <<response, slides, pptx, pc, timerVars, voiceVars, serviceVars>>

\* the timer fires: attempts++, and the loop condition is tested again
PollTimer ==
    /\ poll.pc = "sleeping"
    /\ poll' = PollFrom(project.segments, poll.attempts + 1,
                        poll.waited + PollInterval)
    /\ UNCHANGED <<mode, project, transcription, gen, cor, calls, file>>
    /\ UNCHANGED <<response, slides, pptx, pc, timerVars, voiceVars, serviceVars>>

\* ---- app.post('/api/project/:id/generate-slides') ----
\* req.body.segments: left out, or what the client sends
BodySegments ==
    {Undef, Arr(<<>>), Arr(<< Obj([text |-> Str("henshuu")]) >>), Str("abc")}

\* what the collaborator answers to generateSlides
ServerResponses ==
    {Reply("error"),
     Json(Obj([slides |-> Arr(<< RawSlide([layoutType |-> Str("title"),
                                           title |-> Str("A")]) >>)])),
     Json(Obj([slides |-> Arr(<< RawSlide([layoutType |-> Str("three-columns"),
                                           steps |-> Str("abc")]) >>)]))}

GenerationCall(r) == [kind |-> "generation", req |-> r]

\* the request arrives, up to `await generateSlides(project.segments)`
GenRequest(r) ==
    /\ gen[r].pc = "idle"
    /\ \E body \in BodySegments :
          IF ~project.exists
          THEN /\ gen' = [gen EXCEPT ![r] = Answered(404, Undef)]
               /\ UNCHANGED <<project, calls>>
          ELSE /\ project' = [project EXCEPT
                                 !.segments = IF Truthy(body) THEN body ELSE @]
               /\ gen' = [gen EXCEPT ![r] = [pc |-> "generating"]]
               /\ calls' = IF Provider(mode) # "mock"
                           THEN calls \cup {GenerationCall(r)} ELSE calls
    /\ UNCHANGED <<mode, transcription, poll, cor, file>>
    /\ UNCHANGED <<response, slides, pptx, pc, timerVars, voiceVars, serviceVars>>

\* generateSlides resolves (it catches what its provider throws):
\* project.slides = slides, and createPptx runs up to pptx.writeFile; an
\* exception of a renderer ends the request with 500
GenSlidesSettle(r) ==
    /\ gen[r].pc = "generating"
    /\ \E resp \in ServerResponses :
          LET deck == generateSlides(mode, resp, r)
          IN  /\ project' = [project EXCEPT !.slides = Arr(deck)]
              /\ gen' = [gen EXCEPT ![r] =
                            IF createPptx(deck).status = "threw"
                            THEN Answered(500, Undef)
                            ELSE [pc |-> "writing", slides |-> deck]]
    /\ calls' = calls \ {GenerationCall(r)}
    /\ UNCHANGED <<mode, transcription, poll, cor, file>>
    /\ UNCHANGED <<response, slides, pptx, pc, timerVars, voiceVars, serviceVars>>

\* pptx.writeFile settles: the file is written, project.pptxPath is set and
\* the slides are answered; or the write fails and the answer is 500
GenPptxSettle(r) ==
    /\ gen[r].pc = "writing"
    /\ \/ /\ file' = createPptx(gen[r].slides)
          /\ project' = [project EXCEPT !.pptxPath = Str("presentation.pptx")]
          /\ gen' = [gen EXCEPT ![r] = Answered(200, Arr(gen[r].slides))]
       \/ /\ gen' = [gen EXCEPT ![r] = Answered(500, Undef)]
          /\ UNCHANGED <<project, file>>
    /\ UNCHANGED <<mode, transcription, poll, cor, calls>>
    /\ UNCHANGED <<response, slides, pptx, pc, timerVars, voiceVars, serviceVars>>

\* ---- app.get('/api/project/:id/slides') and .../download ----
\* res.json({ slides: project.slides })
GetSlides ==
    IF ~project.exists THEN Answered(404, Undef)
    ELSE Answered(200, project.slides)

\* res.download(project.pptxPath, 'presentation.pptx'): the file that is at
\* the path now
Download ==
    IF ~project.exists \/ ~Truthy(project.pptxPath) THEN Answered(404, Undef)
    ELSE Answered(200, file)

\* ---- app.post('/api/project/:id/correct') ----
CorrectionCall == [kind |-> "correction", req |-> 0]

\* project.segments.map(...) throws when segments has no .map
SegmentsMapThrows(segs) == ~IsArr(segs) \/ ElemThrows(segs)

\* project.segments.map((s) => s.text), the lines of fullText
TextLines(segs) ==
    [i \in 1..Len(segs.a) |->
        LET text == Get(segs.a[i], "text")
        IN  IF IsStr(text) THEN text ELSE Str("")]

\* the lines correctText answers: those it was given (no provider, or all
\* providers failed), or lines of a provider, corrected or empty
CorrectedLines(env, given) ==
    IF Provider(env) = "mock" THEN {given}
    ELSE {given} \cup SeqsOf({Str("teisei"), Str("")}, 1, 2)

\* the request arrives, up to `await correctText(fullText)`
CorRequest ==
    /\ cor.pc = "idle"
    /\ IF ~project.exists
       THEN cor' = Answered(404, Undef) /\ UNCHANGED calls
       ELSE IF SegmentsMapThrows(project.segments)
       THEN cor' = Answered(500, Undef) /\ UNCHANGED calls
       ELSE /\ cor' = [pc |-> "correcting",
                        lines |-> TextLines(project.segments)]
            /\ calls' = IF Provider(mode) # "mock"
                        THEN calls \cup {CorrectionCall} ELSE calls
    /\ UNCHANGED <<mode, project, transcription, poll, gen, file>>
    /\ UNCHANGED <<response, slides, pptx, pc, timerVars, voiceVars, serviceVars>>

\* correctedText: correctedLines[idx] || seg.text
WithCorrectedText(segs, lines) ==
    Arr([i \in 1..Len(segs.a) |->
            Obj(Merge(segs.a[i].o,
                      [correctedText |->
                          Or(IF i <= Len(lines) THEN lines[i] ELSE Undef,
                             Get(segs.a[i], "text"))]))])

\* correctText resolves (it never rejects): the segments of the project
\* as they are now get the corrected lines
CorSettle ==
    /\ cor.pc = "correcting"
    /\ \E lines \in CorrectedLines(mode, cor.lines) :
          IF SegmentsMapThrows(project.segments)
          THEN cor' = Answered(500, Undef) /\ UNCHANGED project
          ELSE LET segs == WithCorrectedText(project.segments, lines)
               IN  /\ project' = [project EXCEPT !.segments = segs]
                   /\ cor' = Answered(200, segs)
    /\ calls' = calls \ {CorrectionCall}
    /\ UNCHANGED <<mode, transcription, poll, gen, file>>
    /\ UNCHANGED <<response, slides, pptx, pc, timerVars, voiceVars, serviceVars>>

\* ---- the server with a client that asks for the transcription ----
\* one environment for each way the providers are chosen: none, Gemini,
\* Azure with and without a deployment name
ServerEnvironments ==
    {env \in Environments :
        /\ env.deployment => env.azure
        /\ env.gemini => ~env.azure}

ServerCore ==
    /\ mode \in ServerEnvironments
    /\ response = NoReply
    /\ slides = <<>>
    /\ pptx = NoPptx
    /\ pc = "off"

\* the requests the client is going to send
Client(polls, generates, corrects) ==
    /\ project = NoProject
    /\ transcription = [state |-> "none"]
    /\ poll = IF polls THEN [pc |-> "idle"] ELSE NoRequest
    /\ gen = [r \in GenRequests |->
                IF r <= generates THEN [pc |-> "idle"] ELSE NoRequest]
    /\ cor = IF corrects THEN [pc |-> "idle"] ELSE NoRequest
    /\ calls = {}
    /\ file = NoPptx

PollInit ==
    ServerCore /\ TimerIdle /\ VoiceIdle /\ ServiceIdle
    /\ Client(TRUE, 1, FALSE)

GenerateSlidesStarts == \E r \in GenRequests : GenRequest(r)
GenerateSlidesResolves == \E r \in GenRequests : GenSlidesSettle(r)
WriteFileSettles == \E r \in GenRequests : GenPptxSettle(r)

PollNext ==
    \/ Upload \/ TranscriptionResolves \/ TranscriptionRejects
    \/ PollRequest \/ PollTimer
    \/ GenerateSlidesStarts \/ GenerateSlidesResolves \/ WriteFileSettles

\* the event loop runs every timer that is due
SpecPoll == PollInit /\ [][PollNext]_vars /\ WF_vars(PollTimer)

\* ---- the server with overlapping generate-slides and correct requests ----
ServerInit ==
    ServerCore /\ TimerIdle /\ VoiceIdle /\ ServiceIdle
    /\ Client(FALSE, MaxGenRequests, TRUE)

ServerNext ==
    \/ Upload \/ TranscriptionResolves \/ TranscriptionRejects
    \/ GenerateSlidesStarts \/ GenerateSlidesResolves \/ WriteFileSettles
    \/ CorRequest \/ CorSettle

SpecServer == ServerInit /\ [][ServerNext]_vars

(***************************************************************************)
(* voicevoxService.ts: one call of synthesizeMultiple.  The engine is the  *)
(* environment: it answers each request that is in flight, OK or not, or   *)
(* the fetch throws.                                                       *)
(***************************************************************************)
\* the keys of VOICEVOX_CHARACTERS that are modelled
CharacterKeys == {"zundamon-normal", "metan-normal"}

\* VOICEVOX_CHARACTERS[speakerKey]: a plain object, so a key of
\* Object.prototype reads as a function
Speaker(key) ==
    IF key \in CharacterKeys THEN Obj([name |-> Str(key)])
    ELSE IF key \in ObjectPrototypeKeys THEN Fn(key)
    ELSE Undef

SpeakerKeys == {"zundamon-normal", "unknown", "constructor"}
VoiceItem(id, text) == [id |-> id, text |-> text]
VoiceItemPool ==
    {VoiceItem("a", "ichi"), VoiceItem("b", "ni"), VoiceItem("a", "san")}
FetchOutcomes == {"ok", "notok", "throws"}

Failure(error) == [success |-> FALSE, error |-> error]
Success(id) == [success |-> TRUE, audioPath |-> <<"audio_", id, ".wav">>]

\* a request to the engine: GET /version, POST /audio_query, POST /synthesis
Request(kind, item) == [kind |-> kind, item |-> item]

\* results.set(id, result)
SetResult(results, id, result) ==
    [k \in DOMAIN results \cup {id} |-> IF k = id THEN result ELSE results[k]]

\* mutant of LoopFrom: synthesizeSpeech called without await, so that the
\* loop goes on to the items that follow
RECURSIVE LoopFromNoAwait(_, _)
LoopFromNoAwait(v, i) ==
    IF i > Len(v.items) THEN [v EXCEPT !.i = Len(v.items)]
    ELSE IF ~Truthy(Speaker(v.speakerKey))
    THEN LoopFromNoAwait(
             [v EXCEPT !.results = SetResult(@, v.items[i].id,
                                             Failure("unknown character"))],
             i + 1)
    ELSE LoopFromNoAwait(
             [v EXCEPT !.pc = "query",
                       !.inflight = @ \cup {Request("audio_query", i)},
                       !.started = Append(@, Request("audio_query", i))],
             i + 1)

\* for (const item of texts) { const result = await synthesizeSpeech(...) }
\* from item i on, up to the next fetch: an unknown speaker key is a
\* failure without any request, else the audio_query of item i is sent
RECURSIVE LoopFrom(_, _)
LoopFrom(v, i) ==
    IF i > Len(v.items) THEN [v EXCEPT !.pc = "done", !.i = i]
    ELSE IF ~Truthy(Speaker(v.speakerKey))
    THEN LoopFrom(
             [v EXCEPT !.results = SetResult(@, v.items[i].id,
                                             Failure("unknown character"))],
             i + 1)
    ELSE [v EXCEPT !.pc = "query", !.i = i,
                   !.inflight = @ \cup {Request("audio_query", i)},
                   !.started = Append(@, Request("audio_query", i))]

\* synthesizeMultiple is called: checkVoicevoxStatus fetches /version
SynthesizeMultiple ==
    /\ voice.pc = "idle"
    /\ voice' = [voice EXCEPT !.pc = "status",
                              !.inflight = {Request("version", 0)}]
    /\ UNCHANGED <<coreVars, timerVars, serverVars, serviceVars>>

\* texts.forEach((item) => results.set(item.id, {success: false, ...}))
RECURSIVE AllFail(_, _, _)
AllFail(results, items, i) ==
    IF i > Len(items) THEN results
    ELSE AllFail(SetResult(results, items[i].id, Failure("not running")),
                 items, i + 1)

\* the status check settles: when the engine is not running every item
\* fails at once, else the loop starts
StatusSettles ==
    /\ voice.pc = "status"
    /\ \E outcome \in FetchOutcomes :
          LET v == [voice EXCEPT !.inflight = {},
                                 !.isRunning = IF outcome = "ok" THEN "yes"
                                               ELSE "no"]
          IN  voice' = IF outcome = "ok" THEN LoopFrom(v, 1)
                       ELSE [v EXCEPT !.pc = "done",
                                      !.results = AllFail(@, v.items, 1)]
    /\ UNCHANGED <<coreVars, timerVars, serverVars, serviceVars>>

\* mutant of ItemSettles: the loop is left at the first item that fails
ItemSettlesStopsAtFailure(v, item, result) ==
    IF result.success
    THEN LoopFrom([v EXCEPT !.results = SetResult(@, v.items[item].id, result)],
                  item + 1)
    ELSE [v EXCEPT !.results = SetResult(@, v.items[item].id, result),
                   !.pc = "done", !.i = item + 1]

\* the result of synthesizeSpeech for the item that is awaited is set, and
\* the loop goes on
ItemSettles(v, item, result) ==
    LoopFrom([v EXCEPT !.results = SetResult(@, v.items[item].id, result)],
             item + 1)

\* the audio_query of an item settles: the synthesis is sent, or the item
\* fails
QuerySettles ==
    /\ \E req \in voice.inflight, outcome \in FetchOutcomes :
          /\ req.kind = "audio_query"
          /\ LET v == [voice EXCEPT !.inflight = @ \ {req}]
             IN  voice' =
                   IF outcome = "ok"
                   THEN [v EXCEPT
                           !.pc = "synthesis",
                           !.inflight = @ \cup {Request("synthesis", req.item)},
                           !.started = Append(@, Request("synthesis", req.item))]
                   ELSE ItemSettles(v, req.item, Failure(outcome))
    /\ UNCHANGED <<coreVars, timerVars, serverVars, serviceVars>>

\* the synthesis of an item settles: the file is written, or the item fails
SynthesisSettles ==
    /\ \E req \in voice.inflight, outcome \in FetchOutcomes :
          /\ req.kind = "synthesis"
          /\ LET v == [voice EXCEPT !.inflight = @ \ {req}]
             IN  voice' =
                   ItemSettles(v, req.item,
                               IF outcome = "ok"
                               THEN Success(v.items[req.item].id)
                               ELSE Failure(outcome))
    /\ UNCHANGED <<coreVars, timerVars, serverVars, serviceVars>>

VoiceInit ==
    /\ CoreIdle /\ TimerIdle /\ ServerIdle /\ ServiceIdle
    /\ \E items \in SeqsOf(VoiceItemPool, 0, MaxItems), key \in SpeakerKeys :
          voice = [pc |-> "idle", items |-> items, speakerKey |-> key, i |-> 0,
                   isRunning |-> "unset", inflight |-> {}, started |-> <<>>,
                   results |-> <<>>]

VoiceNext ==
    SynthesizeMultiple \/ StatusSettles \/ QuerySettles \/ SynthesisSettles

SpecVoice == VoiceInit /\ [][VoiceNext]_vars

\* every request to the engine settles: it is answered, or the fetch throws
SpecVoiceSettling ==
    /\ VoiceInit /\ [][VoiceNext]_vars
    /\ WF_vars(StatusSettles) /\ WF_vars(QuerySettles)
    /\ WF_vars(SynthesisSettles)

(***************************************************************************)
(* textCorrection.ts: one call of correctText.  A text is the sequence of  *)
(* its characters.  The providers are the environment: each call that is   *)
(* awaited is answered, or throws.                                         *)
(***************************************************************************)
Whitespace == {" ", "\n"}

\* String.prototype.trim
Trim(c) ==
    LET inked == {i \in 1..Len(c) : c[i] \notin Whitespace}
    IN  IF inked = {} THEN <<>>
        ELSE SubSeq(c, CHOOSE i \in inked : \A j \in inked : i <= j,
                       CHOOSE i \in inked : \A j \in inked : j <= i)

\* the texts correctText is given
CorrectionTexts ==
    {Chars(<<>>), Chars(<<"a", "b">>), Chars(<<" ", "a", " ">>)}

\* what model.generateContent(prompt) ends in: response.text(), or an error
GeminiCorrections ==
    {[kind |-> "throws"]}
    \cup {[kind |-> "text", text |-> t] :
            t \in {<<>>, <<"k", "o">>, <<" ", "k", "o", "\n">>}}

\* what chat.completions.create(...) ends in: a response, or an error
Choice(content) == Obj([message |-> Obj([content |-> content])])
GptCorrections ==
    {[kind |-> "throws"]}
    \cup {[kind |-> "response", v |-> v] :
            v \in {Obj([choices |-> Arr(<< Choice(Chars(<<"k", "a">>)) >>)]),
                   Obj([choices |-> Arr(<< Choice(Chars(<<>>)) >>)]),
                   Obj([choices |-> Arr(<< Choice(Null) >>)]),
                   Obj([choices |-> Arr(<< Obj([finish |-> Str("x")]) >>)]),
                   Obj([choices |-> Arr(<<>>)]),
                   Obj([error |-> Str("quota")])}}

\* return <value> of the async function: the promise resolves
Returns(c, value, by) == [c EXCEPT !.pc = "resolved", !.result = value,
                                   !.by = by]

\* from `const client = getGptClient()` on: the GPT call, or return text
CorrectFromGpt(c) ==
    IF gptClient(mode)
    THEN [c EXCEPT !.pc = "gpt", !.called = Append(@, "gpt")]
    ELSE Returns(c, c.text, "input")

\* correctText(text) is called, up to its first await
CorrectText ==
    /\ correction.pc = "idle"
    /\ correction' =
          IF isDevelopmentMode(mode) THEN [correction EXCEPT !.pc = "sleeping"]
          ELSE IF mode.gemini
          THEN [correction EXCEPT !.pc = "gemini",
                                  !.called = Append(@, "gemini")]
          ELSE CorrectFromGpt(correction)
    /\ UNCHANGED segmentation
    /\ UNCHANGED <<coreVars, timerVars, serverVars, voiceVars>>

\* development mode: the timer of one second fires, and the text is returned
CorrectTimer ==
    /\ correction.pc = "sleeping"
    /\ correction' = Returns(correction, correction.text, "input")
    /\ UNCHANGED segmentation
    /\ UNCHANGED <<coreVars, timerVars, serverVars, voiceVars>>

\* mutant of GeminiFailed: no catch around `await correctWithGemini(text)`
GeminiFailedRejects(c) == [c EXCEPT !.pc = "rejected"]

\* correctWithGemini rethrows, the catch of correctText logs, and the
\* function goes on to the GPT fallback
GeminiFailed(c) == CorrectFromGpt(c)

\* correctWithGemini settles: response.text().trim() is returned
CorrectWithGeminiSettles ==
    /\ correction.pc = "gemini"
    /\ \E answer \in GeminiCorrections :
          LET c == [correction EXCEPT !.answers = Append(@, answer)]
          IN  correction' =
                IF answer.kind = "throws" THEN GeminiFailed(c)
                ELSE Returns(c, Chars(Trim(answer.text)), "gemini")
    /\ UNCHANGED segmentation
    /\ UNCHANGED <<coreVars, timerVars, serverVars, voiceVars>>

\* response.choices[0]?.message?.content: a TypeError when the response
\* has no choices
ContentThrows(completion) == IsNullish(Get(completion, "choices"))
ChoiceContent(completion) ==
    LET choices == Get(completion, "choices")
        first == IF IsArr(choices) /\ Len(choices.a) >= 1 THEN choices.a[1]
                 ELSE Undef
        message == IF IsNullish(first) THEN Undef ELSE Get(first, "message")
    IN  IF IsNullish(message) THEN Undef ELSE Get(message, "content")

\* correctWithGPT settles: content || text is returned; when it throws,
\* the catch of correctText logs and the text is returned
CorrectWithGPTSettles ==
    /\ correction.pc = "gpt"
    /\ \E answer \in GptCorrections :
          LET c == [correction EXCEPT !.answers = Append(@, answer)]
          IN  correction' =
                IF answer.kind = "throws" \/ ContentThrows(answer.v)
                THEN Returns(c, c.text, "input")
                ELSE Returns(c, Or(ChoiceContent(answer.v), c.text), "gpt")
    /\ UNCHANGED segmentation
    /\ UNCHANGED <<coreVars, timerVars, serverVars, voiceVars>>

CorrectInit ==
    /\ mode \in Environments
    /\ response = NoReply /\ slides = <<>> /\ pptx = NoPptx /\ pc = "off"
    /\ TimerIdle /\ ServerIdle /\ VoiceIdle
    /\ segmentation = [pc |-> "off"]
    /\ \E text \in CorrectionTexts :
          correction = [pc |-> "idle", text |-> text, called |-> <<>>,
                        answers |-> <<>>, result |-> Undef, by |-> "none"]

CorrectNext ==
    \/ CorrectText \/ CorrectTimer
    \/ CorrectWithGeminiSettles \/ CorrectWithGPTSettles

\* the timer fires, and every call to a provider is answered or throws
SpecCorrect ==
    /\ CorrectInit /\ [][CorrectNext]_vars
    /\ WF_vars(CorrectTimer) /\ WF_vars(CorrectWithGeminiSettles)
    /\ WF_vars(CorrectWithGPTSettles)

(***************************************************************************)
(* textSegmentation.ts: one call of segmentText.  In a text "." stands for *)
(* a sentence-ending mark of the class [。！？].                           *)
(***************************************************************************)
\* text.split(/\n+/): the pieces between the runs of line feeds, the empty
\* piece before a leading run and after a trailing one included
\* the pieces of c that start at the indices of `starts` and end where
\* `ends` says, in the order of the text
PiecesAt(c, starts, ends(_)) ==
    LET nth(k) == CHOOSE i \in starts :
                      Cardinality({j \in starts : j < i}) = k - 1
    IN  [k \in 1..Cardinality(starts) |-> SubSeq(c, nth(k), ends(nth(k)))]
SplitLines(c) ==
    LET n == Len(c)
        starts == {i \in 1..n : c[i] # "\n" /\ (i = 1 \/ c[i - 1] = "\n")}
        end(i) == CHOOSE j \in i..n :
                      /\ \A k \in i..j : c[k] # "\n"
                      /\ (j = n \/ c[j + 1] = "\n")
    IN  IF n = 0 THEN << <<>> >>
        ELSE (IF c[1] = "\n" THEN << <<>> >> ELSE <<>>)
             \o PiecesAt(c, starts, end)
             \o (IF c[n] = "\n" THEN << <<>> >> ELSE <<>>)

\* line.split(/(?<=[。！？])/): cut after every mark that is not the last
\* character
SplitSentences(c) ==
    LET n == Len(c)
        starts == {i \in 1..n : i = 1 \/ c[i - 1] = "."}
        end(i) == CHOOSE j \in i..n :
                      /\ \A k \in i..(j - 1) : c[k] # "."
                      /\ (j = n \/ c[j] = ".")
    IN  IF n = 0 THEN << <<>> >> ELSE PiecesAt(c, starts, end)

\* .filter((s) => s.trim())
NonBlank(pieces) == SelectSeq(pieces, LAMBDA piece : Trim(piece) # <<>>)

MaxLineLength == 150

\* the loop over the sentences of a long line, and the push of what is left
\* in the buffer
RECURSIVE BufferLoop(_, _, _, _)
BufferLoop(sentences, i, buffer, result) ==
    IF i > Len(sentences)
    THEN IF Trim(buffer) # <<>> THEN Append(result, Trim(buffer)) ELSE result
    ELSE IF Len(buffer) + Len(sentences[i]) > MaxLineLength /\ Len(buffer) > 0
    THEN BufferLoop(sentences, i + 1, sentences[i],
                    Append(result, Trim(buffer)))
    ELSE BufferLoop(sentences, i + 1, buffer \o sentences[i], result)

\* the loop over the lines
RECURSIVE SplitLoop(_, _, _)
SplitLoop(lines, i, result) ==
    IF i > Len(lines) THEN result
    ELSE IF Len(lines[i]) > MaxLineLength
    THEN SplitLoop(lines, i + 1,
                   BufferLoop(NonBlank(SplitSentences(lines[i])), 1, <<>>,
                              result))
    ELSE SplitLoop(lines, i + 1, Append(result, Trim(lines[i])))

\* mutant of simpleSplit: the result returned as it is, empty or not
simpleSplitNoFallback(text) ==
    SplitLoop(NonBlank(SplitLines(text)), 1, <<>>)

\* function simpleSplit(text): result.length > 0 ? result : [text.trim()]
simpleSplit(text) ==
    LET result == SplitLoop(NonBlank(SplitLines(text)), 1, <<>>)
    IN  IF Len(result) > 0 THEN result ELSE << Trim(text) >>

\* the list of strings of a list of character sequences
AsStrings(list) == [i \in DOMAIN list |-> Chars(list[i])]

\* n times the characters c
RECURSIVE Times(_, _)
Times(c, n) ==
    IF n = 0 THEN <<>>
    ELSE IF n % 2 = 0 THEN LET half == Times(c, n \div 2) IN half \o half
    ELSE Times(c, n - 1) \o c

\* the texts segmentText is given
SegmentationTexts ==
    {<<>>, <<" ", "\n", " ">>, <<"a", "b">>,
     <<"a", "\n", "\n", "b", " ", "\n">>,
     <<"\n", " ", "a">>,
     Times(<<"x">>, 151),
     Times(<<"x">>, 100) \o <<".">> \o Times(<<"y">>, 100) \o <<".">>,
     Times(Times(<<"x">>, 60) \o <<".", " ">>, 3),
     Times(<<" ">>, 151) \o <<"\n", "a">>}

\* what the provider answers to the segmentation prompt
SegmentationAnswers ==
    {Reply("error"), Reply("empty"), Reply("prose"), Reply("broken"),
     Json(Null), Json(Obj([title |-> Str("T")]))}
    \cup {Json(Obj([segments |-> v])) :
            v \in {Arr(<<>>), Null, Str("abc"), Arr(<< Null >>),
                   Arr(<< Obj([text |-> Chars(<<"a", "b">>)]),
                          Obj([text |-> Chars(<<"c">>)]) >>),
                   Arr(<< Obj([body |-> Chars(<<"a", "b">>)]) >>),
                   Arr(<< Obj([text |-> Chars(<<"a">>)]),
                          Obj([title |-> Str("T")]) >>)}}

\* (parsed.segments || []).map((s) => s.text): a TypeError when parsed is
\* null, when segments has no .map, or when an element is null
SegmentsThrow(parsed) ==
    \/ GetThrows(parsed)
    \/ NotIterable(Get(parsed, "segments"))
    \/ ElemThrows(Get(parsed, "segments"))
SegmentTexts(parsed) ==
    LET list == Items(Get(parsed, "segments"))
    IN  [i \in DOMAIN list |-> Get(list[i], "text")]

\* segmentWithGemini: the braces of the answer are parsed; no braces, no
\* segments or an error give simpleSplit(text)
segmentWithGemini(text, answer) ==
    IF answer.kind # "json" \/ answer.v.t # "object" \/ SegmentsThrow(answer.v)
    THEN AsStrings(simpleSplit(text))
    ELSE IF Len(SegmentTexts(answer.v)) = 0 THEN AsStrings(simpleSplit(text))
    ELSE SegmentTexts(answer.v)

\* segmentWithGPT: the content, or '{"segments":[]}' for none, is parsed
segmentWithGPT(text, answer) ==
    IF answer.kind # "json" \/ SegmentsThrow(answer.v)
    THEN AsStrings(simpleSplit(text))
    ELSE IF Len(SegmentTexts(answer.v)) = 0 THEN AsStrings(simpleSplit(text))
    ELSE SegmentTexts(answer.v)

\* return assignTimestamps(rawSegments): text.length of an element that is
\* undefined is a TypeError, and the promise of segmentText rejects
Timestamped(sg, rawSegments) ==
    IF \E i \in DOMAIN rawSegments : GetThrows(rawSegments[i])
    THEN [sg EXCEPT !.pc = "rejected", !.raw = rawSegments]
    ELSE [sg EXCEPT !.pc = "resolved", !.raw = rawSegments,
                    !.result = assignTimestamps(rawSegments)]

\* segmentText(text) is called, up to its first await or to its return
SegmentText ==
    /\ segmentation.pc = "idle"
    /\ segmentation' =
          IF isDevelopmentMode(mode)
          THEN Timestamped(segmentation,
                           AsStrings(simpleSplit(segmentation.text)))
          ELSE IF mode.gemini THEN [segmentation EXCEPT !.pc = "gemini"]
          ELSE IF gptClient(mode) THEN [segmentation EXCEPT !.pc = "gpt"]
          ELSE Timestamped(segmentation,
                           AsStrings(simpleSplit(segmentation.text)))
    /\ UNCHANGED correction
    /\ UNCHANGED <<coreVars, timerVars, serverVars, voiceVars>>

SegmentWithGeminiSettles ==
    /\ segmentation.pc = "gemini"
    /\ \E answer \in SegmentationAnswers :
          segmentation' =
              Timestamped([segmentation EXCEPT !.answer = answer],
                          segmentWithGemini(segmentation.text, answer))
    /\ UNCHANGED correction
    /\ UNCHANGED <<coreVars, timerVars, serverVars, voiceVars>>

SegmentWithGPTSettles ==
    /\ segmentation.pc = "gpt"
    /\ \E answer \in SegmentationAnswers :
          segmentation' =
              Timestamped([segmentation EXCEPT !.answer = answer],
                          segmentWithGPT(segmentation.text, answer))
    /\ UNCHANGED correction
    /\ UNCHANGED <<coreVars, timerVars, serverVars, voiceVars>>

SegmentInit ==
    /\ mode \in Environments
    /\ response = NoReply /\ slides = <<>> /\ pptx = NoPptx /\ pc = "off"
    /\ TimerIdle /\ ServerIdle /\ VoiceIdle
    /\ correction = [pc |-> "off"]
    /\ \E text \in SegmentationTexts :
          segmentation = [pc |-> "idle", text |-> text, answer |-> NoReply,
                          raw |-> <<>>, result |-> <<>>]

SegmentNext ==
    SegmentText \/ SegmentWithGeminiSettles \/ SegmentWithGPTSettles

SpecSegment == SegmentInit /\ [][SegmentNext]_vars

(***************************************************************************)
(* Properties.                                                             *)
(***************************************************************************)
\* the request went to a provider and its .map ran over the answered list
\* to its end, so the deck is the Builder's
Built ==
    /\ pc # "idle"
    /\ Provider(mode) \in {"gemini", "gpt"}
    /\ response.kind = "json"
    /\ response.v.t = "object"
    /\ "slides" \in DOMAIN response.v.o
    /\ IsArr(response.v.o.slides)
    /\ \A i \in DOMAIN response.v.o.slides.a :
          ~IsNullish(response.v.o.slides.a[i])
RawList == response.v.o.slides.a

\* a timing of a raw slide as a number of tenths: 0 when it is left out,
\* null or 0
RawTime(raw, field) ==
    LET v == Get(raw, field) IN IF IsNum(v) THEN v.n ELSE 0

RECURSIVE SumDurations(_, _)
SumDurations(segs, n) ==
    IF n = 0 THEN 0 ELSE SumDurations(segs, n - 1) + (segs[n].end - segs[n].start)

\* r is charCount / 320 * 60 rounded to the nearest integer, a half going up
IsRounded(r, charCount) ==
    /\ CHARS_PER_MINUTE * (2 * r - 1) <= 2 * 60 * charCount
    /\ 2 * 60 * charCount < CHARS_PER_MINUTE * (2 * r + 1)

\* C2: assignTimestamps returns one segment per text in input order, the
\* first starting at 0, each later one at the end of the one before it,
\* end = start + clamp(round(charCount / 320 * 60), 3, 60), the durations
\* summing to the end of the last segment; the two texts of the scenario
\* give 0..3 and a second segment starting at 3.
C2_TimestampsChain ==
    tpc = "done" =>
        /\ Len(segments) = Len(texts)
        /\ \A i \in DOMAIN segments :
              LET d == segments[i].end - segments[i].start
              IN  /\ segments[i].text = texts[i]
                  /\ segments[i].start = (IF i = 1 THEN 0 ELSE segments[i - 1].end)
                  /\ 3 <= d /\ d <= 60
                  /\ \E r \in 0..100 :
                        /\ IsRounded(r, Len(texts[i].s))
                        /\ d = Max(3, Min(60, r))
        /\ \A i \in 1..(Len(segments) - 1) :
              segments[i].start <= segments[i + 1].start
        /\ segments # <<>> =>
              SumDurations(segments, Len(segments)) = segments[Len(segments)].end
        /\ (Len(texts) >= 2 /\ SubSeq(texts, 1, 2) = ScenarioTexts) =>
              /\ segments[1].start = 0 /\ segments[1].end = 3
              /\ segments[2].start = 3

\* the scenario's two texts, followed by a text long enough for the upper
\* clamp
C2_Witness ==
    /\ tpc = "done"
    /\ Len(texts) = 3
    /\ SubSeq(texts, 1, 2) = ScenarioTexts
    /\ segments[3].end - segments[3].start = 60
    /\ segments[3].start = 6

IsMockDeck(deck) == \E seed \in Seeds : deck = getMockSlides(seed)

\* the answer is text that is no JSON (an answer without any text is not
\* counted here)
NotParseable(resp) == resp.kind \in {"prose", "broken"}
\* the answer is JSON without an array under `slides`
LacksSlidesArray(resp) ==
    /\ resp.kind = "json"
    /\ \/ resp.v.t # "object"
       \/ ~IsArr(Get(resp.v, "slides"))

\* C3: when the collaborator's answer is no parseable JSON, or JSON that
\* lacks a `slides` array, generateSlides returns the mock deck, on the
\* Gemini and on the GPT path.
C3_FallbackToMockDeck ==
    (/\ pc # "idle"
     /\ Provider(mode) \in {"gemini", "gpt"}
     /\ NotParseable(response) \/ LacksSlidesArray(response))
    => IsMockDeck(slides)

\* C4: createPptx emits one output slide per input slide, in input order:
\* the i-th slide of the written presentation is the one built from
\* slides[i], nothing reordered, dropped or deduplicated; every deck typed
\* as the Slide interface says is written.
C4_OneOutputSlidePerSlideInOrder ==
    /\ (pc = "done" /\ IsTypedDeck(slides)) => pptx.status = "written"
    /\ pptx.status = "written" =>
          /\ Len(pptx.slides) = Len(slides)
          /\ \A i \in DOMAIN slides : pptx.slides[i] = OutputSlide(slides[i])

\* a written deck of three slides of which the first two are drawn alike
\* and the third differs in layout
C4_Witness ==
    /\ pptx.status = "written"
    /\ Len(slides) = 3
    /\ pptx.slides[1] = pptx.slides[2]
    /\ slides[3].layoutType # slides[1].layoutType
    /\ pptx.slides[3] # pptx.slides[1]

\* C5: the auto-advance value of every slide of the written presentation
\* is the duration of the slide of the deck at the same place, whatever
\* the layout and the payload.
C5_AdvanceAfterIsDuration ==
    /\ (pc = "done" /\ IsTypedDeck(slides)) => pptx.status = "written"
    /\ pptx.status = "written" =>
          /\ Len(pptx.slides) = Len(slides)
          /\ \A i \in DOMAIN slides :
                pptx.slides[i].advanceAfter = slides[i].duration

\* a written slide whose duration is neither its end time nor the clamp
C5_Witness ==
    /\ pptx.status = "written"
    /\ \E i \in DOMAIN slides :
          /\ slides[i].duration.n > Sec(1)
          /\ slides[i].duration # slides[i].endTime
          /\ ~LayoutIs(slides[i], "bullet-points")
          /\ pptx.slides[i].advanceAfter = slides[i].duration

DigitChars == {Digit(d) : d \in 0..9}
DigitValue(c) == CHOOSE d \in 0..9 : Digit(d) = c
\* chars[from], chars[from+1] are two digits, ":", two digits, and read as
\* floor(t / 60) minutes and floor(t mod 60) seconds, t in tenths of a second
ReadsAsTime(chars, from, t) ==
    /\ \A k \in {from, from + 1, from + 3, from + 4} : chars[k] \in DigitChars
    /\ chars[from + 2] = ":"
    /\ 10 * DigitValue(chars[from]) + DigitValue(chars[from + 1])
          = t \div (60 * Scale)
    /\ 10 * DigitValue(chars[from + 3]) + DigitValue(chars[from + 4])
          = (t \div Scale) % 60
InFooterRange(v) == IsNum(v) /\ 0 <= v.n /\ v.n < Sec(6000)
FooterOf(out) == out.prims[Len(out.prims)]

\* C6: the footer of every written slide whose start and end time lie in
\* 0..5999 seconds reads MM:SS - MM:SS, the minutes floor(s / 60) and the
\* seconds floor(s mod 60), each of two digits; for 65 and 130 seconds it
\* is "01:05 - 02:10".
C6_FooterFormat ==
    pptx.status = "written" =>
        \A i \in DOMAIN pptx.slides :
            LET chars == FooterOf(pptx.slides[i]).text.chars
                start == slides[i].startTime
                end == slides[i].endTime
            IN  /\ FooterOf(pptx.slides[i]).kind = "text"
                /\ (InFooterRange(start) /\ InFooterRange(end)) =>
                      /\ Len(chars) = 13
                      /\ ReadsAsTime(chars, 1, start.n)
                      /\ SubSeq(chars, 6, 8) = << " ", "-", " " >>
                      /\ ReadsAsTime(chars, 9, end.n)
                /\ (start = Num(Sec(65)) /\ end = Num(Sec(130))) =>
                      chars = << "0", "1", ":", "0", "5", " ", "-", " ",
                                 "0", "2", ":", "1", "0" >>

\* the written slide of the scenario, 65 to 130 seconds
C6_Witness ==
    /\ pptx.status = "written"
    /\ \E i \in DOMAIN slides :
          /\ slides[i].startTime = Num(Sec(65))
          /\ slides[i].endTime = Num(Sec(130))
          /\ FooterOf(pptx.slides[i]).text.chars[2] = "1"

IsLine(p) == p.kind = "shape" /\ p.shape = "line"
NodeIdsOf(nodes) == {Get(nodes[i], "id") : i \in DOMAIN nodes}
\* the edges of which both endpoints are ids of nodes
SoundEdges(nodes, edges) ==
    {k \in DOMAIN edges : /\ Get(edges[k], "from") \in NodeIdsOf(nodes)
                          /\ Get(edges[k], "to") \in NodeIdsOf(nodes)}
\* the line runs from the centre of one node to the centre of another
JoinsCentres(line, n) ==
    \E i, j \in 1..n :
        /\ line.x = Num(NodeX(i - 1, n)) /\ line.y = Num(NodeY(i - 1, n))
        /\ line.w = Num(NodeX(j - 1, n) - NodeX(i - 1, n))
        /\ line.h = Num(NodeY(j - 1, n) - NodeY(i - 1, n))

\* C7: a written network-diagram slide has one line primitive for every
\* edge of which both endpoints are node ids and none for any other edge,
\* and each line joins the computed centres of two nodes.
C7_DanglingEdgesDropped ==
    pptx.status = "written" =>
        \A i \in DOMAIN slides :
            LayoutIs(slides[i], "network-diagram") =>
                LET nodes == Items(slides[i].networkNodes)
                    edges == Items(slides[i].networkEdges)
                    lines == SelectSeq(pptx.slides[i].prims, IsLine)
                IN  /\ Len(lines) = Cardinality(SoundEdges(nodes, edges))
                    /\ \A k \in DOMAIN lines : JoinsCentres(lines[k], Len(nodes))

\* the same, for the edges that name no member of Object.prototype
C7_DanglingEdgesDroppedButPrototypeKeys ==
    pptx.status = "written" =>
        \A i \in DOMAIN slides :
            (/\ LayoutIs(slides[i], "network-diagram")
             /\ \A k \in DOMAIN Items(slides[i].networkEdges) :
                   LET e == Items(slides[i].networkEdges)[k]
                   IN  /\ ToKey(Get(e, "from")) \notin ObjectPrototypeKeys
                       /\ ToKey(Get(e, "to")) \notin ObjectPrototypeKeys) =>
                LET nodes == Items(slides[i].networkNodes)
                    edges == Items(slides[i].networkEdges)
                    lines == SelectSeq(pptx.slides[i].prims, IsLine)
                IN  /\ Len(lines) = Cardinality(SoundEdges(nodes, edges))
                    /\ \A k \in DOMAIN lines : JoinsCentres(lines[k], Len(nodes))

\* the raw layoutType is missing, null or empty
LayoutAbsent(raw) == Get(raw, "layoutType") \in {Undef, Null, Str("")}

\* C8: a raw slide whose layoutType is missing, null or empty becomes a
\* slide of layoutType 'bullet-points'.
C8_AbsentLayoutIsBulletPoints ==
    Built =>
        \A i \in DOMAIN slides :
            LayoutAbsent(RawList[i]) => slides[i].layoutType = Str("bullet-points")

\* a built deck with a slide made from a raw slide without layoutType
C8_Witness ==
    /\ Built
    /\ \E i \in DOMAIN slides :
          /\ Get(RawList[i], "layoutType") = Null
          /\ slides[i].layoutType = Str("bullet-points")

\* C9: a raw slide whose layoutType is none of the ten names becomes a
\* slide of layoutType 'bullet-points', so that every slide of every deck
\* has one of the ten layout types.
C9_LayoutAmongTheTen ==
    /\ pc # "idle" =>
          \A i \in DOMAIN slides :
              slides[i].layoutType \in {Str(l) : l \in LayoutTypes}
    /\ Built =>
          \A i \in DOMAIN slides :
              Get(RawList[i], "layoutType") \notin {Str(l) : l \in LayoutTypes}
                  => slides[i].layoutType = Str("bullet-points")

\* C10: whatever the raw slides are, the Builder normalises them and
\* createPptx renders the deck without an exception.
C10_NeverThrows == pc = "done" => pptx.status = "written"

\* the five text primitives of a formula: operand, operator, operand, "=",
\* result
FormulaPrims(out) ==
    SelectSeq(out.prims, LAMBDA p : p.kind = "text" /\ p.y = Num(2500))

\* C11: a formula-flow slide whose formula is undefined (or null) is
\* written with the title block and the footer only, none of the operand,
\* operator, "=" and result texts, and no formula-flow slide makes
\* createPptx throw.
C11_FormulaAbsentTitleOnly ==
    /\ pptx.status = "threw" => ~LayoutIs(slides[pptx.at], "formula-flow")
    /\ pptx.status = "written" =>
          \A i \in DOMAIN slides :
              (LayoutIs(slides[i], "formula-flow") /\ IsNullish(slides[i].formula))
              => /\ pptx.slides[i].prims
                      = << Text(slides[i].title, 500, 500, 9000, 800,
                                colTextPrimary),
                           Footer(slides[i]) >>
                 /\ FormulaPrims(pptx.slides[i]) = <<>>

\* a written formula-flow slide without formula: the title and the footer
C11_Witness ==
    /\ pptx.status = "written"
    /\ \E i \in DOMAIN slides :
          /\ LayoutIs(slides[i], "formula-flow")
          /\ slides[i].formula = Undef
          /\ Len(pptx.slides[i].prims) = 2

\* the slide without its id
WithoutId(slide) == [k \in DOMAIN slide \ {"id"} |-> slide[k]]

\* C12: the mock deck is the same at every invocation of the fallback
\* path, ids included: the deck returned equals the deck any other
\* invocation returns, whatever nanoid draws.
C12_MockDeckDeterministic ==
    (pc # "idle" /\ IsMockDeck(slides)) =>
        \A seed \in Seeds : getMockSlides(seed) = slides

\* the same, the ids left aside
C12_MockDeckFixedButIds ==
    (pc # "idle" /\ IsMockDeck(slides)) =>
        \A seed \in Seeds :
            /\ Len(getMockSlides(seed)) = Len(slides)
            /\ \A i \in DOMAIN slides :
                  WithoutId(getMockSlides(seed)[i]) = WithoutId(slides[i])

\* the layout types a deck has a slide of
LayoutsOf(deck) ==
    {l \in LayoutTypes : \E i \in DOMAIN deck : LayoutIs(deck[i], l)}

\* C13: the mock deck, given to createPptx, is written, and for each of
\* the ten layout types it has a slide of that type whose output slide has
\* primitives beyond its title (and the footer).
C13_MockDeckRendersTenLayouts ==
    (pc = "done" /\ IsMockDeck(slides)) =>
        /\ pptx.status = "written"
        /\ \A l \in LayoutTypes :
              \E i \in DOMAIN slides :
                  /\ LayoutIs(slides[i], l)
                  /\ Len(pptx.slides[i].prims) > 2

\* what the transcription-result request has done so far is within the
\* bound of the loop, and its answer is the one its last test decides
PollBounded ==
    poll.pc \in {"sleeping", "answered"} =>
        /\ poll.attempts \in 0..MaxAttempts
        /\ poll.waited = poll.attempts * PollInterval
        /\ poll.pc = "sleeping" =>
              Get(poll.seen, "length") = Num(0) /\ poll.attempts < MaxAttempts
        /\ poll.pc = "answered" =>
              \/ poll.status = 404 /\ poll.attempts = 0
              \/ /\ poll.status = 200
                 /\ Get(poll.seen, "length") # Num(0)
                 /\ poll.body = poll.seen
              \/ /\ poll.status = 408
                 /\ poll.attempts = MaxAttempts
                 /\ Get(poll.seen, "length") = Num(0)

\* a test of the loop condition that finds segments answers with them in
\* the same step, without another wait
PollAnswersAtOnce ==
    (/\ poll.pc \in {"idle", "sleeping"}
     /\ poll' # poll
     /\ project.exists
     /\ Get(project.segments, "length") # Num(0))
    => (poll'.pc = "answered" /\ poll'.status = 200
        /\ poll'.body = project.segments)

\* C14: the transcription-result request waits at most 60 times one
\* second (attempts never exceeds 60), answers with the segments at the
\* first test that finds the list non-empty, answers 408 only after 60
\* attempts with the list still empty, and a request that waits is always
\* answered, whether the transcription resolves, rejects or never settles.
C14_BoundedPolling ==
    /\ []PollBounded
    /\ [][PollAnswersAtOnce]_vars
    /\ (poll.pc = "sleeping") ~> (poll.pc = "answered")

\* the request answered 408 after its 60th wait
C14_Witness ==
    /\ poll.pc = "answered"
    /\ poll.status = 408
    /\ poll.attempts = MaxAttempts
    /\ transcription.state = "pending"

\* the transcription and slide-generation calls of the project in flight
ProjectCalls == {c \in calls : c.kind \in {"transcription", "generation"}}

\* C16: at any time at most one external transcription or slide-generation
\* call of the project is in flight, whatever the interleaving of the
\* upload, its transcription, and the correct and generate-slides requests.
C16_OneCallInFlight == Cardinality(ProjectCalls) <= 1

\* the part of it about two generate-slides requests alone, the
\* transcription resolved: their generation calls never overlap
C16_GenerationsNeverOverlap ==
    ~(/\ transcription.state = "resolved"
      /\ {GenerationCall(1), GenerationCall(2)} \subseteq calls)

\* at most one request to the engine is in flight, it is a request of the
\* item the loop is at, every item before it has its result, and the
\* requests were started in the order of the items
VoiceSequential ==
    voice.pc # "off" =>
        /\ Cardinality(voice.inflight) <= 1
        /\ \A req \in voice.inflight :
              req.kind # "version" =>
                  /\ req.item = voice.i
                  /\ \A j \in 1..(req.item - 1) :
                        voice.items[j].id \in DOMAIN voice.results
        /\ \A k, l \in DOMAIN voice.started :
              k < l => voice.started[k].item <= voice.started[l].item
        /\ \A k, l \in DOMAIN voice.started :
              (k < l /\ voice.started[k].item = voice.started[l].item)
              => /\ l = k + 1
                 /\ voice.started[k].kind = "audio_query"
                 /\ voice.started[l].kind = "synthesis"

\* a request for an item is started only in a step that settles the
\* request in flight before it: the status check or a request of the item
\* before, or, for the synthesis, the audio_query of the same item
VoiceStartsAfterSettle ==
    \A req \in voice'.inflight \ voice.inflight :
        \E settled \in voice.inflight \ voice'.inflight :
            \/ req.kind = "audio_query" /\ req.item = 1
                  /\ settled.kind = "version"
            \/ req.kind = "audio_query" /\ settled.item = req.item - 1
                  /\ voice.items[settled.item].id \in DOMAIN voice'.results
            \/ req.kind = "synthesis" /\ settled = Request("audio_query", req.item)

\* C15: in synthesizeMultiple the requests to the engine are made one at a
\* time and in the order of the items: the request for item i+1 is started
\* only when the request for item i has settled, with success or failure,
\* and two requests are never in flight together.
C15_SequentialSynthesis ==
    /\ []VoiceSequential
    /\ [][voice.pc \notin {"off", "idle"} => VoiceStartsAfterSettle]_vars

\* two items done, the first failed at its synthesis, the second written
C15_Witness ==
    /\ voice.pc = "done"
    /\ Len(voice.items) = 2
    /\ voice.items[1].id # voice.items[2].id
    /\ ~voice.results[voice.items[1].id].success
    /\ voice.results[voice.items[2].id].success
    /\ voice.started = << Request("audio_query", 1), Request("synthesis", 1),
                          Request("audio_query", 2), Request("synthesis", 2) >>

Rebuilt(slide) == BuildSlide(Obj(slide), NanoId(0, 0))

\* C18: the Builder applied to the slides of a deck it has built does not
\* throw, and gives every slide back with the same layoutType, title,
\* content, payload fields, notes, startTime, endTime and duration; only
\* the id is new.
C18_BuilderIdempotent ==
    Built =>
        /\ ~MapThrows(Arr([i \in DOMAIN slides |-> Obj(slides[i])]))
        /\ \A i \in DOMAIN slides :
              /\ DOMAIN Rebuilt(slides[i]) = DOMAIN slides[i]
              /\ WithoutId(Rebuilt(slides[i])) = WithoutId(slides[i])
              /\ Rebuilt(slides[i]).id # slides[i].id

\* a built slide whose raw slide had no layoutType, notes or start time
\* and an end time before 0: the first pass filled them in, the second
\* changes nothing
C18_Witness ==
    /\ Built
    /\ \E i \in DOMAIN slides :
          /\ Get(RawList[i], "layoutType") = Undef
          /\ Get(RawList[i], "startTime") = Undef
          /\ Get(RawList[i], "endTime") = Num(-Sec(5))
          /\ slides[i].layoutType = Str("bullet-points")
          /\ slides[i].startTime = Num(0)
          /\ slides[i].duration = Num(Sec(1))
          /\ WithoutId(Rebuilt(slides[i])) = WithoutId(slides[i])

\* each slide starts where the one before it ends, the first at 0
Contiguous(deck) ==
    /\ deck # <<>> => deck[1].startTime = Num(0)
    /\ \A i \in 2..Len(deck) : deck[i].startTime = deck[i - 1].endTime

\* C19: the mock deck has between 5 and 8 slides, spans more than half of
\* the ten layout types, and its timings are contiguous from 0.
C19_MockDeckShape ==
    (pc # "idle" /\ IsMockDeck(slides)) =>
        /\ Len(slides) \in 5..8
        /\ 2 * Cardinality(LayoutsOf(slides)) > Cardinality(LayoutTypes)
        /\ Contiguous(slides)

\* the part of it about the timings
C19_MockDeckContiguous ==
    (pc # "idle" /\ IsMockDeck(slides)) =>
        /\ Contiguous(slides)
        /\ \A i \in DOMAIN slides :
              slides[i].duration = Sub(slides[i].endTime, slides[i].startTime)

\* the fill of segment idx (from 0) of an arrow-steps slide with n steps,
\* and the colours of its label and its description, as the claim has
\* them: even dark with light text, odd light with dark text
ArrowRects(out) ==
    SelectSeq(out.prims, LAMBDA p : p.kind = "shape" /\ p.shape = "rect")
ArrowTexts(out, y) ==
    SelectSeq(out.prims, LAMBDA p : p.kind = "text" /\ p.y = Num(y))

\* C20: in a written arrow-steps slide with N >= 1 steps the segment at an
\* even index is filled dark and its label is light, the segment at an odd
\* index is filled light and its label is dark, the last segment
\* included, so that the label colour of every segment differs from its
\* fill.
C20_ArrowStepsAlternate ==
    pptx.status = "written" =>
        \A i \in DOMAIN slides :
            (/\ LayoutIs(slides[i], "arrow-steps")
             /\ Len(Items(slides[i].arrowSteps)) >= 1) =>
                LET rects == ArrowRects(pptx.slides[i])
                    labels == ArrowTexts(pptx.slides[i], 2400)
                IN  /\ Len(rects) = Len(Items(slides[i].arrowSteps))
                    /\ Len(labels) = Len(rects)
                    /\ \A k \in DOMAIN rects :
                          /\ rects[k].fill = (IF (k - 1) % 2 = 0
                                               THEN colTextPrimary
                                               ELSE colLightGray)
                          /\ labels[k].color = (IF (k - 1) % 2 = 0
                                                 THEN colBackground
                                                 ELSE colTextPrimary)
                          /\ labels[k].color # rects[k].fill

\* the same for every segment but the last
C20_ArrowStepsAlternateButLast ==
    pptx.status = "written" =>
        \A i \in DOMAIN slides :
            LayoutIs(slides[i], "arrow-steps") =>
                LET rects == ArrowRects(pptx.slides[i])
                    labels == ArrowTexts(pptx.slides[i], 2400)
                IN  /\ Len(rects) = Len(Items(slides[i].arrowSteps))
                    /\ Len(labels) = Len(rects)
                    /\ \A k \in 1..(Len(rects) - 1) :
                          /\ rects[k].fill = (IF (k - 1) % 2 = 0
                                               THEN colTextPrimary
                                               ELSE colLightGray)
                          /\ labels[k].color = (IF (k - 1) % 2 = 0
                                                 THEN colBackground
                                                 ELSE colTextPrimary)
                          /\ labels[k].color # rects[k].fill

\* a bubble without its overlap list, and a slide whose bubbles have none
WithoutOverlap(bubble) ==
    IF bubble.t = "object"
    THEN Obj([k \in DOMAIN bubble.o \ {"overlap"} |-> bubble.o[k]])
    ELSE bubble
StripOverlap(slide) ==
    [slide EXCEPT !.bubbles =
        IF IsArr(@) THEN Arr([k \in DOMAIN @.a |-> WithoutOverlap(@.a[k])])
        ELSE @]
HasOverlap(slide) == StripOverlap(slide) # slide

\* the ellipses and the labels of a written bubble-chart slide, in order
BubbleEllipses(out) ==
    SelectSeq(out.prims, LAMBDA p : p.kind = "shape" /\ p.shape = "ellipse")
BubbleLabels(out) ==
    SelectSeq(out.prims, LAMBDA p : p.kind = "text" /\ p.y = Num(2600))

\* x of the centre of bubble i (from 0) of n: 5 + (i - n/2) * 0.8
BubbleCentreX(i, n) == 5000 + (2 * i - n) * 400

\* C21: the primitives of a written bubble-chart slide are those of the
\* same slide with every overlap list taken away, and bubble i of N has its
\* label box, and its ellipse when its diameter is a number, centred at
\* x = 5 + (i - N/2) * 0.8, y = 2.8.
C21_OverlapNotConsumed ==
    pptx.status = "written" =>
        \A i \in DOMAIN slides :
            LayoutIs(slides[i], "bubble-chart") =>
                LET out == pptx.slides[i]
                    n == Len(Items(slides[i].bubbles))
                    ellipses == BubbleEllipses(out)
                    labels == BubbleLabels(out)
                IN  /\ out.prims = OutputSlide(StripOverlap(slides[i])).prims
                    /\ Len(ellipses) = n
                    /\ Len(labels) = n
                    /\ \A k \in 1..n :
                          /\ labels[k].x.n + labels[k].w.n \div 2
                                = BubbleCentreX(k - 1, n)
                          /\ labels[k].y.n + labels[k].h.n \div 2 = 2800
                          /\ IsNum(ellipses[k].w) =>
                                /\ ellipses[k].x.n + ellipses[k].w.n \div 2
                                      = BubbleCentreX(k - 1, n)
                                /\ ellipses[k].y.n + ellipses[k].h.n \div 2
                                      = 2800

\* a written bubble-chart slide of two bubbles, one of which lists the other
\* as overlapping
C21_Witness ==
    /\ pptx.status = "written"
    /\ \E i \in DOMAIN slides :
          /\ LayoutIs(slides[i], "bubble-chart")
          /\ HasOverlap(slides[i])
          /\ Len(BubbleEllipses(pptx.slides[i])) = 2
          /\ \A k \in 1..2 : IsNum(BubbleEllipses(pptx.slides[i])[k].w)

\* the primitives of a written three-columns slide between its title and
\* its footer
ColumnPrims(out) == SubSeq(out.prims, 2, Len(out.prims) - 1)

\* C22: a written three-columns slide of N steps has N columns of three
\* text primitives each, the number, the title and the description of the
\* step from top to bottom, column i at x = 0.8 + i * (2.8 + 0.3) and of
\* width 2.8.
C22_ThreeColumnsGeometry ==
    pptx.status = "written" =>
        \A i \in DOMAIN slides :
            LayoutIs(slides[i], "three-columns") =>
                LET steps == Items(slides[i].steps)
                    prims == ColumnPrims(pptx.slides[i])
                IN  /\ Len(prims) = 3 * Len(steps)
                    /\ \A k \in DOMAIN steps :
                          LET number == prims[3 * k - 2]
                              title == prims[3 * k - 1]
                              description == prims[3 * k]
                          IN  /\ \A p \in {number, title, description} :
                                    /\ p.kind = "text"
                                    /\ p.x = Num(800 + (k - 1) * (2800 + 300))
                                    /\ p.w = Num(2800)
                              /\ number.text = Get(steps[k], "number")
                              /\ title.text = Get(steps[k], "title")
                              /\ description.text = Get(steps[k], "description")
                              /\ number.y.n + number.h.n <= title.y.n
                              /\ title.y.n + title.h.n <= description.y.n

\* a written three-columns slide of exactly 3 steps, its columns at 0.8, 3.9
\* and 7.0
C22_Witness ==
    /\ pptx.status = "written"
    /\ \E i \in DOMAIN slides :
          /\ LayoutIs(slides[i], "three-columns")
          /\ Len(Items(slides[i].steps)) = 3
          /\ ColumnPrims(pptx.slides[i])[1].x = Num(800)
          /\ ColumnPrims(pptx.slides[i])[4].x = Num(3900)
          /\ ColumnPrims(pptx.slides[i])[7].x = Num(7000)

\* two texts that differ only in the spaces that follow the same characters
SameButWhitespace(a, b) ==
    \E n \in TextLengths, p, q \in 0..8 :
        a = Padded(Rep("x", n), p) /\ b = Padded(Rep("x", n), q)

\* C23: two texts that differ only in whitespace receive the same duration
\* from assignTimestamps.
C23_WhitespaceNotCounted ==
    tpc = "done" =>
        \A i, j \in DOMAIN segments :
            SameButWhitespace(segments[i].text, segments[j].text) =>
                segments[i].end - segments[i].start
                    = segments[j].end - segments[j].start

\* what holds instead: the duration is that of text.length, spaces counted
C23_LengthCounted ==
    tpc = "done" =>
        \A i \in DOMAIN segments :
            segments[i].end - segments[i].start
                = Max(3, Min(60, RoundedSeconds(Len(segments[i].text.s))))

OptionalArrays ==
    {"leftColumn", "rightColumn", "steps", "timelineItems", "networkNodes",
     "networkEdges", "bubbles", "arrowSteps"}

\* C24: in every slide the Builder makes, an optional payload array the raw
\* object does not supply is an empty array.
C24_OptionalArraysDefaultEmpty ==
    Built =>
        \A i \in DOMAIN slides : \A f \in OptionalArrays :
            Get(RawList[i], f) = Undef => slides[i][f] = Arr(<<>>)

\* what holds instead: content and notes get their defaults, and the
\* optional arrays are copied as they are, undefined when left out
C24_OptionalArraysCopied ==
    Built =>
        \A i \in DOMAIN slides :
            /\ Get(RawList[i], "content") = Undef =>
                  slides[i].content = Arr(<<>>)
            /\ Get(RawList[i], "notes") = Undef => slides[i].notes = Str("")
            /\ \A f \in OptionalArrays : slides[i][f] = Get(RawList[i], f)

\* the diameters of the size-tier map {large: 2.5, medium: 1.8, small: 1.2}
TierDiameters == {Num(2500), Num(1800), Num(1200)}

\* C25: every ellipse of a written bubble-chart slide has a diameter of the
\* size-tier map, whatever deck the Builder handed to createPptx.
C25_DiameterFromTierMap ==
    pptx.status = "written" =>
        \A i \in DOMAIN slides :
            LayoutIs(slides[i], "bubble-chart") =>
                LET ellipses == BubbleEllipses(pptx.slides[i])
                IN  \A k \in DOMAIN ellipses :
                        /\ ellipses[k].w \in TierDiameters
                        /\ ellipses[k].h = ellipses[k].w

\* what holds instead: the diameter is of the map when the bubble's size is
\* one of its three keys
C25_DiameterFromTierMapWhenKeyed ==
    pptx.status = "written" =>
        \A i \in DOMAIN slides :
            LayoutIs(slides[i], "bubble-chart") =>
                LET ellipses == BubbleEllipses(pptx.slides[i])
                    bubbles == Items(slides[i].bubbles)
                IN  \A k \in DOMAIN ellipses :
                        Get(bubbles[k], "size")
                            \in {Str("large"), Str("medium"), Str("small")}
                        => /\ ellipses[k].w \in TierDiameters
                           /\ ellipses[k].h = ellipses[k].w

\* C26: whenever the download request is answered with a file, the file is
\* the presentation of the deck the slides request answers with.
C26_DownloadMatchesSlides ==
    Download.status = 200 =>
        /\ IsArr(GetSlides.body)
        /\ Download.body = createPptx(GetSlides.body.a)

\* the same while no generate-slides request is under way
C26_DownloadMatchesSlidesAtRest ==
    (\A r \in GenRequests : gen[r].pc \in {"off", "idle", "answered"})
        => C26_DownloadMatchesSlides

\* the upload's transcription settles in this step
TranscriptionSettles ==
    transcription.state = "pending" /\ transcription'.state # "pending"

\* C27: when the upload's transcription settles after a correct or
\* generate-slides request has written the project's segments (they are no
\* longer the empty list the upload stored), the segments stay as they are.
C27_TranscriptionKeepsWrittenSegments ==
    [][(TranscriptionSettles /\ project.segments # Arr(<<>>))
          => project'.segments = project.segments]_vars

\* what holds of the settling transcription: a list it resolves with
\* becomes the project's segments, whatever they were
C27_TranscriptionResultStored ==
    [][TranscriptionSettles =>
          \/ project'.segments = project.segments
          \/ \E result \in TranscriptionResults(transcription.external) :
                IsArr(result) /\ project'.segments = WithIds(result)]_vars

\* the ids of the items given to synthesizeMultiple
ItemIds == {voice.items[i].id : i \in DOMAIN voice.items}
\* the last item of the list that has the id
LastWithId(id) ==
    CHOOSE i \in DOMAIN voice.items :
        /\ voice.items[i].id = id
        /\ \A j \in DOMAIN voice.items : voice.items[j].id = id => j <= i

\* when synthesizeMultiple has resolved, the map has a result for every
\* item id and for nothing else; after a failed status check they are all
\* failures and no request but the status check was sent; else, with a
\* speaker key that is unknown, they are all failures without a request,
\* and with any other key every item had its audio_query sent, and an
\* item that succeeded its synthesis too
VoiceResolved ==
    voice.pc = "done" =>
        /\ DOMAIN voice.results = ItemIds
        /\ voice.inflight = {}
        /\ voice.isRunning = "no" =>
              /\ voice.started = <<>>
              /\ \A id \in ItemIds : voice.results[id] = Failure("not running")
        /\ (voice.isRunning = "yes" /\ ~Truthy(Speaker(voice.speakerKey))) =>
              /\ voice.started = <<>>
              /\ \A id \in ItemIds :
                    voice.results[id] = Failure("unknown character")
        /\ (voice.isRunning = "yes" /\ Truthy(Speaker(voice.speakerKey))) =>
              /\ \A i \in DOMAIN voice.items :
                    \E k \in DOMAIN voice.started :
                        voice.started[k] = Request("audio_query", i)
              /\ \A id \in ItemIds :
                    voice.results[id].success
                        => \E k \in DOMAIN voice.started :
                                voice.started[k]
                                    = Request("synthesis", LastWithId(id))

\* a request of an item that settles without success, or its synthesis
\* settling, puts the item's result into the map; a failure is recorded as
\* such, and the loop goes on to the next item
VoiceRecordsAndGoesOn ==
    (voice.pc \in {"query", "synthesis"} /\ voice'.pc # "synthesis") =>
        LET id == voice.items[voice.i].id
        IN  /\ id \in DOMAIN voice'.results
            /\ voice.pc = "query" => ~voice'.results[id].success
            /\ voice'.i = voice.i + 1
            /\ IF voice.i < Len(voice.items)
               THEN /\ voice'.pc = "query"
                    /\ voice'.inflight = {Request("audio_query", voice.i + 1)}
               ELSE voice'.pc = "done"

C28_WitnessNotRunning ==
    /\ voice.pc = "done"
    /\ voice.isRunning = "no"
    /\ Len(voice.items) = 2
    /\ \A id \in ItemIds : ~voice.results[id].success

\* the answer of the provider that was called k-th, if it was called
AnswerOf(provider) ==
    LET ks == {k \in DOMAIN correction.answers :
                  correction.called[k] = provider}
    IN  IF ks = {} THEN [kind |-> "none"]
        ELSE correction.answers[CHOOSE k \in ks : TRUE]
GeminiSucceeded == AnswerOf("gemini").kind = "text"
GptSucceeded ==
    AnswerOf("gpt").kind = "response" /\ ~ContentThrows(AnswerOf("gpt").v)

\* correctText does not reject, and what it has resolved with follows the
\* order: Gemini when its key is set and it succeeds, else GPT when it is
\* configured and succeeds, else the text given
CorrectFallbackOrder ==
    /\ correction.pc # "rejected"
    /\ correction.pc = "resolved" =>
          /\ (~mode.gemini /\ ~gptClient(mode)) =>
                correction.called = <<>> /\ correction.result = correction.text
          /\ mode.gemini =>
                /\ correction.called[1] = "gemini"
                /\ GeminiSucceeded =>
                      /\ correction.called = << "gemini" >>
                      /\ correction.result
                            = Chars(Trim(AnswerOf("gemini").text))
          /\ ((~mode.gemini \/ ~GeminiSucceeded) /\ gptClient(mode)) =>
                /\ correction.called[Len(correction.called)] = "gpt"
                /\ GptSucceeded =>
                      correction.result
                          = Or(ChoiceContent(AnswerOf("gpt").v),
                               correction.text)
          /\ (~GeminiSucceeded /\ ~GptSucceeded) =>
                correction.result = correction.text

\* C29: correctText never rejects and resolves by the fallback order: the
\* input when no provider is configured, Gemini's result when its key is
\* set, the GPT result when Gemini is absent or fails and GPT is
\* configured, the input when every configured provider fails.
C29_CorrectTextFallback ==
    /\ []CorrectFallbackOrder
    /\ (correction.pc \in {"sleeping", "gemini", "gpt"})
          ~> (correction.pc = "resolved")

\* Gemini failed, then GPT answered, and its text was returned
C29_Witness ==
    /\ correction.pc = "resolved"
    /\ correction.called = << "gemini", "gpt" >>
    /\ ~GeminiSucceeded
    /\ correction.result = Chars(<<"k", "a">>)
    /\ correction.result # correction.text

\* both providers failed, and the text given was returned
C29_WitnessAllFail ==
    /\ correction.pc = "resolved"
    /\ correction.called = << "gemini", "gpt" >>
    /\ ~GeminiSucceeded /\ ~GptSucceeded
    /\ correction.result = correction.text

\* the provider's answer carries no JSON, no segment, or is an error
NoSegmentsAnswered(answer) ==
    \/ answer.kind # "json"
    \/ answer.v.t # "object"
    \/ Get(answer.v, "segments") \in {Undef, Null, Arr(<<>>)}

\* C30: segmentText resolves, never rejects, with a list of at least one
\* segment of which the first starts at 0.
C30_SegmentTextResolvesNonEmpty ==
    /\ segmentation.pc # "rejected"
    /\ segmentation.pc = "resolved" =>
          /\ Len(segmentation.result) >= 1
          /\ segmentation.result[1].start = 0

\* what holds of a call that resolves, and of simpleSplit: the list is not
\* empty and starts at 0, an answer without JSON or segments gives the
\* segments of simpleSplit, and simpleSplit never returns an empty list
C30_ResolvedNonEmpty ==
    /\ segmentation.pc = "resolved" =>
          /\ Len(segmentation.result) >= 1
          /\ segmentation.result[1].start = 0
          /\ NoSegmentsAnswered(segmentation.answer) =>
                segmentation.raw = AsStrings(simpleSplit(segmentation.text))
    /\ segmentation.pc # "off" => Len(simpleSplit(segmentation.text)) >= 1
    /\ segmentation.pc = "rejected" =>
          ~NoSegmentsAnswered(segmentation.answer)

====
